---- MODULE Spec2Model ----
(***************************************************************************)
(* Model of the Genaryn AI Deputy Commander backend:                       *)
(*   - AuthService.authenticate_user and its lockout policy,               *)
(*   - the decisions router and DecisionRepository,                        *)
(*   - the conversations router and its repositories.                      *)
(* Time is counted in minutes.                                             *)
(***************************************************************************)
EXTENDS Integers, Sequences, FiniteSets, TLC

(* ---- bounds of the model ---- *)
MaxTime == 18
MaxFailed == 7

(* ---- program constants ---- *)
MAX_LOGIN_ATTEMPTS == 5
LOCKOUT_DURATION_MINUTES == 15

(* Python's None for a nullable timestamp column *)
None == -1

VARIABLES now, user, auth_resp, streak,
          accounts, tokens, tok_resp,
          decisions, bg_tasks, dec_resp,
          conversations, messages, conv_tasks, conv_resp,
          db_up, redis_up, llm_endpoint, redis_service_instance, health_resp,
          sockets, active_connections, connection_users, typing_users,
          streams, sent, ws_resp,
          lifespan_pc, shutdown_log,
          sse_pc, upstream, sse_out,
          route_resp,
          login_reqs, failed_checks,
          bc_sessions, bc_iter, bc_delivered, bc_steady

auth_vars == <<now, user, auth_resp, streak>>
dec_vars == <<decisions, bg_tasks, dec_resp>>
conv_vars == <<conversations, messages, conv_tasks, conv_resp>>
tok_vars == <<accounts, tokens, tok_resp>>
health_vars == <<db_up, redis_up, llm_endpoint, redis_service_instance, health_resp>>
ws_vars == <<sockets, active_connections, connection_users, typing_users, streams, sent,
            ws_resp>>
life_vars == <<lifespan_pc, shutdown_log>>
sse_vars == <<sse_pc, upstream, sse_out>>
route_vars == <<route_resp>>
login_vars == <<login_reqs, failed_checks>>
bc_vars == <<bc_sessions, bc_iter, bc_delivered, bc_steady>>
vars == <<now, user, auth_resp, streak, accounts, tokens, tok_resp,
          decisions, bg_tasks, dec_resp,
          conversations, messages, conv_tasks, conv_resp,
          db_up, redis_up, llm_endpoint, redis_service_instance, health_resp,
          sockets, active_connections, connection_users, typing_users,
          streams, sent, ws_resp,
          lifespan_pc, shutdown_log,
          sse_pc, upstream, sse_out,
          route_resp,
          login_reqs, failed_checks,
          bc_sessions, bc_iter, bc_delivered, bc_steady>>

(* ======================= authentication ================================ *)

Usernames == {"alice", "mallory"}
Passwords == {"Secret123", "Wrong1234"}

(* bcrypt is modelled as a tagged value: hashing is injective on the small *)
(* password set and verification re-hashes and compares.                   *)
hash_password(password) == <<"bcrypt", password>>

verify_password(plain_password, hashed_password) ==
    hash_password(plain_password) = hashed_password

(* the one registered account (AuthService.create_user) *)
NewUser == [username |-> "alice",
            hashed_password |-> hash_password("Secret123"),
            is_active |-> TRUE,
            failed_login_attempts |-> 0,
            locked_until |-> None,
            last_login |-> None]

(* select(User).where(username == ...).scalar_one_or_none() is not None *)
UserFound(username) == user.username = username

IsLocked(u, t) == u.locked_until # None /\ u.locked_until > t

(* authenticate_user without the test of locked_until *)
AuthOutcomeNoLockCheck(u, password, t) ==
    IF ~verify_password(password, u.hashed_password)
    THEN LET n == u.failed_login_attempts + 1
             v == [u EXCEPT !.failed_login_attempts = n]
         IN  [row |-> IF n >= MAX_LOGIN_ATTEMPTS
                      THEN [v EXCEPT !.locked_until = t + LOCKOUT_DURATION_MINUTES]
                      ELSE v,
              ok |-> FALSE]
    ELSE IF ~u.is_active
    THEN [row |-> u, ok |-> FALSE]
    ELSE [row |-> [u EXCEPT !.failed_login_attempts = 0,
                            !.locked_until = None, !.last_login = t],
          ok |-> TRUE]

(* authenticate_user that leaves the failure counter alone on success *)
AuthOutcomeNoReset(u, password, t) ==
    IF IsLocked(u, t)
    THEN [row |-> u, ok |-> FALSE]
    ELSE IF ~verify_password(password, u.hashed_password)
    THEN LET n == u.failed_login_attempts + 1
             v == [u EXCEPT !.failed_login_attempts = n]
         IN  [row |-> IF n >= MAX_LOGIN_ATTEMPTS
                      THEN [v EXCEPT !.locked_until = t + LOCKOUT_DURATION_MINUTES]
                      ELSE v,
              ok |-> FALSE]
    ELSE IF ~u.is_active
    THEN [row |-> u, ok |-> FALSE]
    ELSE [row |-> [u EXCEPT !.locked_until = None, !.last_login = t],
          ok |-> TRUE]

(* authenticate_user that checks the password of a locked account and     *)
(* starts the lock anew on a wrong one                                     *)
AuthOutcomeLockExtends(u, password, t) ==
    IF IsLocked(u, t) /\ verify_password(password, u.hashed_password)
    THEN [row |-> u, ok |-> FALSE]
    ELSE IF ~verify_password(password, u.hashed_password)
    THEN LET n == u.failed_login_attempts + 1
             v == [u EXCEPT !.failed_login_attempts = n]
         IN  [row |-> IF n >= MAX_LOGIN_ATTEMPTS
                      THEN [v EXCEPT !.locked_until = t + LOCKOUT_DURATION_MINUTES]
                      ELSE v,
              ok |-> FALSE]
    ELSE IF ~u.is_active
    THEN [row |-> u, ok |-> FALSE]
    ELSE [row |-> [u EXCEPT !.failed_login_attempts = 0,
                            !.locked_until = None, !.last_login = t],
          ok |-> TRUE]

(* authenticate_user for which a lock that has run out also clears the     *)
(* failure counter                                                         *)
AuthOutcomeExpiryResets(u, password, t) ==
    IF IsLocked(u, t)
    THEN [row |-> u, ok |-> FALSE]
    ELSE IF ~verify_password(password, u.hashed_password)
    THEN LET n == IF u.locked_until # None THEN 1
                  ELSE u.failed_login_attempts + 1
             v == [u EXCEPT !.failed_login_attempts = n,
                            !.locked_until = IF n = 1 THEN None ELSE @]
         IN  [row |-> IF n >= MAX_LOGIN_ATTEMPTS
                      THEN [v EXCEPT !.locked_until = t + LOCKOUT_DURATION_MINUTES]
                      ELSE v,
              ok |-> FALSE]
    ELSE IF ~u.is_active
    THEN [row |-> u, ok |-> FALSE]
    ELSE [row |-> [u EXCEPT !.failed_login_attempts = 0,
                            !.locked_until = None, !.last_login = t],
          ok |-> TRUE]

(* AuthService.authenticate_user: the row after the call and whether a    *)
(* user is returned                                                        *)
AuthOutcome(u, password, t) ==
    IF IsLocked(u, t)
    THEN [row |-> u, ok |-> FALSE]
    ELSE IF ~verify_password(password, u.hashed_password)
    THEN LET n == u.failed_login_attempts + 1
             v == [u EXCEPT !.failed_login_attempts = n]
         IN  [row |-> IF n >= MAX_LOGIN_ATTEMPTS
                      THEN [v EXCEPT !.locked_until = t + LOCKOUT_DURATION_MINUTES]
                      ELSE v,
              ok |-> FALSE]
    ELSE IF ~u.is_active
    THEN [row |-> u, ok |-> FALSE]
    ELSE [row |-> [u EXCEPT !.failed_login_attempts = 0,
                            !.locked_until = None, !.last_login = t],
          ok |-> TRUE]

(* number of consecutive wrong-password calls made since the counter was  *)
(* 0, counted up to one past the limit                                     *)
NextStreak(u, password) ==
    IF verify_password(password, u.hashed_password) THEN 0
    ELSE IF u.failed_login_attempts = 0 THEN 1
    ELSE IF streak > 0 /\ streak <= MAX_LOGIN_ATTEMPTS THEN streak + 1
    ELSE streak

(* AuthService.authenticate_user(db, username, password) *)
authenticate_user(username, password) ==
    LET u == user IN
    IF ~UserFound(username)
    THEN /\ auth_resp' = [op |-> "authenticate", username |-> username,
                          password_ok |-> FALSE, was_locked |-> FALSE,
                          lock_expired |-> FALSE, ok |-> FALSE]
         /\ UNCHANGED <<now, user, streak>>
    ELSE LET r == AuthOutcome(u, password, now) IN
         /\ r.row.failed_login_attempts <= MaxFailed
         /\ user' = r.row
         /\ streak' = NextStreak(u, password)
         /\ auth_resp' = [op |-> "authenticate", username |-> username,
                          password_ok |-> verify_password(password, u.hashed_password),
                          was_locked |-> (u.locked_until # None /\ u.locked_until > now),
                          lock_expired |-> (u.locked_until # None /\ u.locked_until <= now),
                          ok |-> r.ok]
         /\ UNCHANGED now

(* UserRepository.update(user, is_active=...) *)
set_active(active) ==
    /\ user.is_active # active
    /\ user' = [user EXCEPT !.is_active = active]
    /\ auth_resp' = [op |-> "update", username |-> user.username,
                     password_ok |-> FALSE, was_locked |-> FALSE,
                     lock_expired |-> FALSE, ok |-> TRUE]
    /\ UNCHANGED <<now, streak>>

(* UserRepository.unlock_account(user) *)
unlock_account ==
    /\ user.locked_until # None \/ user.failed_login_attempts # 0
    /\ user' = [user EXCEPT !.locked_until = None, !.failed_login_attempts = 0]
    /\ streak' = 0
    /\ auth_resp' = [op |-> "unlock", username |-> user.username,
                     password_ok |-> FALSE, was_locked |-> FALSE,
                     lock_expired |-> FALSE, ok |-> TRUE]
    /\ UNCHANGED now

(* datetime.utcnow() advances *)
Tick ==
    /\ now < MaxTime
    /\ now' = now + 1
    /\ auth_resp' = [op |-> "idle", username |-> user.username,
                     password_ok |-> FALSE, was_locked |-> FALSE,
                     lock_expired |-> FALSE, ok |-> FALSE]
    /\ UNCHANGED <<user, streak>>

(* ========================= decisions =================================== *)

(* ========================= JWT tokens ================================== *)

MaxTokenPairs == 2

JWT_ACCESS_TOKEN_EXPIRE_MINUTES == 30
JWT_REFRESH_TOKEN_EXPIRE_DAYS == 7

JWT_SECRET_KEY == "your-secret-key-change-in-production"

(* the registered users whose tokens are followed *)
AccountIds == {"u1", "u2"}

(* the instants, in minutes, at which requests arrive *)
Instants == {0, 29, JWT_ACCESS_TOKEN_EXPIRE_MINUTES,
             JWT_REFRESH_TOKEN_EXPIRE_DAYS * 24 * 60}

(* jwt.encode(payload, key, algorithm): the payload and an HS256 signature *)
(* over it, which only the key reproduces                                  *)
Sign(payload, key) == <<"HS256", key, payload>>
jwt_encode(payload, key) == [payload |-> payload, signature |-> Sign(payload, key)]

(* AuthService.create_access_token *)
create_access_token(user_id, t) ==
    jwt_encode([sub |-> user_id, type |-> "access", iat |-> t,
                exp |-> t + JWT_ACCESS_TOKEN_EXPIRE_MINUTES], JWT_SECRET_KEY)

(* AuthService.create_refresh_token *)
create_refresh_token(user_id, t) ==
    jwt_encode([sub |-> user_id, type |-> "refresh", iat |-> t,
                exp |-> t + JWT_REFRESH_TOKEN_EXPIRE_DAYS * 24 * 60], JWT_SECRET_KEY)

(* AuthService.create_token_pair *)
create_token_pair(user_id, t) ==
    {create_access_token(user_id, t), create_refresh_token(user_id, t)}

(* AuthService.decode_token: the payload, or None (valid = FALSE) for a    *)
(* bad signature or an expired token                                       *)
decode_token(token, t) ==
    IF token.signature # Sign(token.payload, JWT_SECRET_KEY)
    THEN [valid |-> FALSE, payload |-> token.payload]
    ELSE IF token.payload.exp <= t
    THEN [valid |-> FALSE, payload |-> token.payload]
    ELSE [valid |-> TRUE, payload |-> token.payload]

(* a user test that only asks whether the row exists *)
user_exists_only(user_id) == user_id \in DOMAIN accounts

(* "not user or not user.is_active", negated, for the row get_user_by_id   *)
(* finds                                                                   *)
user_usable(user_id) ==
    user_id \in DOMAIN accounts /\ accounts[user_id] = "active"

(* verify_token without the test of the token type *)
verify_token_any_type(token, t) ==
    LET d == decode_token(token, t) IN
    /\ d.valid
    /\ user_usable(d.payload.sub)

(* AuthService.verify_token: is a user returned *)
verify_token_ok(token, t) ==
    LET d == decode_token(token, t) IN
    /\ d.valid /\ d.payload.type = "access"
    /\ user_usable(d.payload.sub)

(* AuthService.refresh_access_token: is a new pair returned *)
refresh_ok(token, t) ==
    LET d == decode_token(token, t) IN
    /\ d.valid /\ d.payload.type = "refresh"
    /\ user_usable(d.payload.sub)

NoToken == [payload |-> [sub |-> "none", type |-> "none", iat |-> 0, exp |-> 0],
            signature |-> <<>>]

TokReply(op, token, ok) == [op |-> op, token |-> token, ok |-> ok]

(* what a client can present: a token it was issued, an issued token whose *)
(* payload it rewrote (other type, later expiry) under the old signature,  *)
(* or the rewritten payload signed with a key of its own                   *)
Rewritten(token) ==
    {[token EXCEPT !.payload.type = IF @ = "access" THEN "refresh" ELSE "access"],
     [token EXCEPT !.payload.exp = @ + JWT_REFRESH_TOKEN_EXPIRE_DAYS * 24 * 60]}
Presentable ==
    tokens \cup UNION {Rewritten(token) : token \in tokens}
           \cup {jwt_encode(r.payload, "attacker-key") :
                    r \in UNION {Rewritten(token) : token \in tokens}}

(* POST /auth/login once authenticate_user has returned the user *)
login(user_id) ==
    /\ user_usable(user_id)
    /\ Cardinality(tokens \cup create_token_pair(user_id, now)) <= 2 * MaxTokenPairs
    /\ tokens' = tokens \cup create_token_pair(user_id, now)
    /\ tok_resp' = TokReply("login", create_access_token(user_id, now), TRUE)
    /\ UNCHANGED <<now, accounts>>

(* get_current_user / authenticate_websocket: AuthService.verify_token *)
verify_token(token) ==
    /\ tok_resp' = TokReply("verify", token, verify_token_ok(token, now))
    /\ UNCHANGED <<now, accounts, tokens>>

(* POST /auth/refresh: AuthService.refresh_access_token *)
refresh_access_token(token) ==
    IF refresh_ok(token, now)
    THEN /\ Cardinality(tokens \cup create_token_pair(token.payload.sub, now))
               <= 2 * MaxTokenPairs
         /\ tokens' = tokens \cup create_token_pair(token.payload.sub, now)
         /\ tok_resp' = TokReply("refresh", token, TRUE)
         /\ UNCHANGED <<now, accounts>>
    ELSE /\ tok_resp' = TokReply("refresh", token, FALSE)
         /\ UNCHANGED <<now, accounts, tokens>>

(* UserRepository.update(user, is_active=...) *)
set_account_active(user_id, active) ==
    /\ user_id \in DOMAIN accounts
    /\ accounts[user_id] # (IF active THEN "active" ELSE "inactive")
    /\ accounts' = [accounts EXCEPT ![user_id] = IF active THEN "active" ELSE "inactive"]
    /\ tok_resp' = TokReply("update-user", NoToken, TRUE)
    /\ UNCHANGED <<now, tokens>>

(* UserRepository.delete *)
delete_account(user_id) ==
    /\ user_id \in DOMAIN accounts
    /\ accounts' = [x \in DOMAIN accounts \ {user_id} |-> accounts[x]]
    /\ tok_resp' = TokReply("delete-user", NoToken, TRUE)
    /\ UNCHANGED <<now, tokens>>

(* datetime.utcnow() at the next request *)
advance_clock(t) ==
    /\ t > now
    /\ now' = t
    /\ tok_resp' = TokReply("idle", NoToken, FALSE)
    /\ UNCHANGED <<accounts, tokens>>

TokInit ==
    /\ accounts = [x \in AccountIds |-> "active"]
    /\ tokens = {}
    /\ tok_resp = TokReply("none", NoToken, FALSE)

TokNext ==
    \/ \E user_id \in AccountIds : login(user_id)
    \/ \E token \in Presentable : verify_token(token)
    \/ \E token \in Presentable : refresh_access_token(token)
    \/ \E user_id \in AccountIds, active \in BOOLEAN : set_account_active(user_id, active)
    \/ \E user_id \in AccountIds : delete_account(user_id)
    \/ \E t \in Instants : advance_clock(t)

MaxDecisions == 1

(* Python's None for a nullable text / id / JSON column *)
Null == "null"

UserIds == {"u1", "u2", "u3", "u4"}

(* users.role of the registered callers *)
Role == [u \in UserIds |->
            CASE u = "u1" -> "staff"
              [] u = "u2" -> "commander"
              [] u = "u3" -> "admin"
              [] u = "u4" -> "commander"]

(* the current_user argument of a handler, as the handlers read it: .id is *)
(* the string they compare with str(decision.user_id), .role the role name *)
(* they compare with "commander"                                           *)
CurrentUser(u) == [id |-> u, role |-> Role[u]]

DecisionStatus == {"draft", "pending", "approved", "rejected", "executed"}
DecisionPriority == {"routine", "priority", "immediate", "flash"}

(* values a request body may carry *)
Creators == {"u1", "u2"}
Titles == {"t1"}
CreatePriorities == {"routine", "flash"}
ApprovalStatus == {"approved", "rejected"}
Reasons == {Null, "too risky"}
Outcomes == {"won"}
Lessons == {"plan early"}
CoaLists == {<<"hold", "advance">>}
RiskMatrices == {"matrix"}
MdmpPhases == {"receipt_of_mission", "bogus"}
PhaseInputs == {"i1"}
MDMP_PHASES == {"receipt_of_mission", "mission_analysis", "coa_development",
                "coa_analysis", "coa_comparison", "coa_approval",
                "orders_production"}

(* Python truthiness of an Optional[str] *)
Truthy(s) == s # Null /\ s # ""

(* DecisionRepository.create *)
DecisionRepository_create(user_id, title, priority, t) ==
    [user_id |-> user_id, title |-> title, status |-> "draft",
     priority |-> priority, risk_assessment |-> "{}", alternatives |-> <<>>,
     selected_coa |-> Null, coa_analysis |-> <<>>,
     mdmp_phase |-> Null, mdmp_data |-> <<>>,
     outcome |-> Null, lessons_learned |-> Null,
     approved_by |-> Null, approved_at |-> None, rejection_reason |-> Null,
     created_at |-> t, updated_at |-> t, executed_at |-> None]

(* update_status that records the status but neither approver nor time *)
update_status_unstamped(d, status, approved_by, rejection_reason, t) ==
    LET d1 == [d EXCEPT !.status = status, !.updated_at = t] IN
    IF status = "rejected" /\ Truthy(rejection_reason)
    THEN [d1 EXCEPT !.rejection_reason = rejection_reason]
    ELSE IF status = "executed"
    THEN [d1 EXCEPT !.executed_at = t]
    ELSE d1

(* update_status that starts the new status with empty COA and risk data *)
update_status_clearing(d, status, approved_by, rejection_reason, t) ==
    LET d1 == [d EXCEPT !.status = status, !.updated_at = t,
                        !.coa_analysis = <<>>, !.selected_coa = Null,
                        !.risk_assessment = "{}"] IN
    IF status = "approved" /\ approved_by # Null
    THEN [d1 EXCEPT !.approved_by = approved_by, !.approved_at = t]
    ELSE IF status = "rejected" /\ Truthy(rejection_reason)
    THEN [d1 EXCEPT !.rejection_reason = rejection_reason]
    ELSE IF status = "executed"
    THEN [d1 EXCEPT !.executed_at = t]
    ELSE d1

(* DecisionRepository.update_status, applied to the row that was found *)
update_status(d, status, approved_by, rejection_reason, t) ==
    LET d1 == [d EXCEPT !.status = status, !.updated_at = t] IN
    IF status = "approved" /\ approved_by # Null
    THEN [d1 EXCEPT !.approved_by = approved_by, !.approved_at = t]
    ELSE IF status = "rejected" /\ Truthy(rejection_reason)
    THEN [d1 EXCEPT !.rejection_reason = rejection_reason]
    ELSE IF status = "executed"
    THEN [d1 EXCEPT !.executed_at = t]
    ELSE d1

(* DecisionRepository.update_coa *)
update_coa(d, selected_coa, coa_analysis, t) ==
    [d EXCEPT !.selected_coa = selected_coa,
              !.coa_analysis = IF coa_analysis # <<>> THEN coa_analysis ELSE @,
              !.updated_at = t]

(* DecisionRepository.update_outcome *)
update_outcome(d, outcome, lessons_learned, t) ==
    [d EXCEPT !.outcome = outcome,
              !.lessons_learned = IF Truthy(lessons_learned) THEN lessons_learned ELSE @,
              !.updated_at = t]

Exists(id) == id \in DOMAIN decisions

(* an ownership test that also lets a commander through *)
is_owner_or_commander(d, current_user) ==
    d.user_id = current_user.id \/ current_user.role = "commander"

(* "str(decision.user_id) != current_user.id" of update_decision,          *)
(* analyze-coa, assess-risk and mdmp, negated                              *)
is_owner(d, current_user) == d.user_id = current_user.id

(* the access test of get_decision and record_decision_outcome, negated    *)
may_read(d, current_user) ==
    d.user_id = current_user.id \/ current_user.role = "commander"

(* what a handler answered: the request (op, caller, decision_id and its   *)
(* main argument arg), the HTTP status code and the decision returned      *)
Reply(op, u, id, arg, code, body) ==
    [op |-> op, caller |-> u, decision_id |-> id, arg |-> arg,
     code |-> code, body |-> body]

(* POST /api/decisions/ *)
create_decision(u, title, priority, llm_ok) ==
    IF ~llm_ok
    THEN /\ dec_resp' = Reply("create", u, 0, Null, 500, <<>>)
         /\ UNCHANGED <<decisions, bg_tasks>>
    ELSE /\ Len(decisions) < MaxDecisions
         /\ LET id == Len(decisions) + 1
                d == DecisionRepository_create(CurrentUser(u).id, title, priority, now)
            IN  /\ decisions' = Append(decisions, d)
                /\ bg_tasks' = IF priority \in {"immediate", "flash"}
                               THEN bg_tasks \cup {id} ELSE bg_tasks
                /\ dec_resp' = Reply("create", u, id, Null, 200, <<d>>)

(* GET /api/decisions/{decision_id} *)
get_decision(u, id) ==
    /\ dec_resp' =
         IF ~Exists(id) THEN Reply("get", u, id, Null, 404, <<>>)
         ELSE IF ~may_read(decisions[id], CurrentUser(u))
         THEN Reply("get", u, id, Null, 403, <<>>)
         ELSE Reply("get", u, id, Null, 200, <<decisions[id]>>)
    /\ UNCHANGED <<decisions, bg_tasks>>

(* bodies of PATCH requests (DecisionUpdate); description, type and       *)
(* rationale are applied exactly like title                                *)
UpdateBodies ==
    {[title |-> Null, priority |-> Null, selected_coa |-> Null],
     [title |-> "t2", priority |-> "immediate", selected_coa |-> "hold"]}

(* PATCH /api/decisions/{decision_id} *)
update_decision(u, id, update) ==
    IF ~Exists(id)
    THEN /\ dec_resp' = Reply("patch", u, id, Null, 404, <<>>)
         /\ UNCHANGED <<decisions, bg_tasks>>
    ELSE IF ~is_owner(decisions[id], CurrentUser(u))
    THEN /\ dec_resp' = Reply("patch", u, id, Null, 403, <<>>)
         /\ UNCHANGED <<decisions, bg_tasks>>
    ELSE LET d == [decisions[id] EXCEPT
                     !.title = IF Truthy(update.title) THEN update.title ELSE @,
                     !.priority = IF update.priority # Null THEN update.priority ELSE @,
                     !.selected_coa = IF Truthy(update.selected_coa)
                                      THEN update.selected_coa ELSE @,
                     !.updated_at = now]
         IN  /\ decisions' = [decisions EXCEPT ![id] = d]
             /\ dec_resp' = Reply("patch", u, id, Null, 200, <<d>>)
             /\ UNCHANGED bg_tasks

(* DecisionService.analyze_courses_of_action: the COA with the highest     *)
(* parsed success probability (index best) becomes the selected one        *)
analyze_coa_service(d, courses_of_action, best, t) ==
    update_coa(d, courses_of_action[best], courses_of_action, t)

(* POST /api/decisions/{decision_id}/analyze-coa *)
analyze_courses_of_action(u, id, courses_of_action, best, llm_ok) ==
    IF ~Exists(id)
    THEN /\ dec_resp' = Reply("analyze-coa", u, id, Null, 404, <<>>)
         /\ UNCHANGED <<decisions, bg_tasks>>
    ELSE IF ~is_owner(decisions[id], CurrentUser(u))
    THEN /\ dec_resp' = Reply("analyze-coa", u, id, Null, 403, <<>>)
         /\ UNCHANGED <<decisions, bg_tasks>>
    ELSE IF ~llm_ok
    THEN /\ dec_resp' = Reply("analyze-coa", u, id, Null, 500, <<>>)
         /\ UNCHANGED <<decisions, bg_tasks>>
    ELSE /\ decisions' = [decisions EXCEPT
                            ![id] = analyze_coa_service(@, courses_of_action, best, now)]
         /\ dec_resp' = Reply("analyze-coa", u, id, Null, 200, <<>>)
         /\ UNCHANGED bg_tasks

(* POST /api/decisions/{decision_id}/assess-risk *)
assess_decision_risk(u, id, risk_matrix, llm_ok) ==
    IF ~Exists(id)
    THEN /\ dec_resp' = Reply("assess-risk", u, id, Null, 404, <<>>)
         /\ UNCHANGED <<decisions, bg_tasks>>
    ELSE IF ~is_owner(decisions[id], CurrentUser(u))
    THEN /\ dec_resp' = Reply("assess-risk", u, id, Null, 403, <<>>)
         /\ UNCHANGED <<decisions, bg_tasks>>
    ELSE IF ~llm_ok
    THEN /\ dec_resp' = Reply("assess-risk", u, id, Null, 500, <<>>)
         /\ UNCHANGED <<decisions, bg_tasks>>
    ELSE /\ decisions' = [decisions EXCEPT ![id].risk_assessment = risk_matrix]
         /\ dec_resp' = Reply("assess-risk", u, id, Null, 200, <<>>)
         /\ UNCHANGED bg_tasks

(* the role test of approve_decision *)
MayApprove(current_user) == current_user.role = "commander"

(* POST /api/decisions/{decision_id}/approve *)
approve_decision(u, id, status, rejection_reason) ==
    IF ~MayApprove(CurrentUser(u))
    THEN /\ dec_resp' = Reply("approve", u, id, status, 403, <<>>)
         /\ UNCHANGED <<decisions, bg_tasks>>
    ELSE IF ~Exists(id)
    THEN /\ dec_resp' = Reply("approve", u, id, status, 404, <<>>)
         /\ UNCHANGED <<decisions, bg_tasks>>
    ELSE /\ decisions' = [decisions EXCEPT ![id] =
                            update_status(@, status,
                                          IF status = "approved"
                                          THEN CurrentUser(u).id ELSE Null,
                                          rejection_reason, now)]
         /\ dec_resp' = Reply("approve", u, id, status, 200, <<>>)
         /\ UNCHANGED bg_tasks

(* outcome recording that executes approved decisions only *)
record_outcome_if_approved(d, outcome, lessons_learned, t) ==
    LET updated == update_outcome(d, outcome, lessons_learned, t) IN
    IF updated.status = "approved"
    THEN update_status(updated, "executed", Null, Null, t)
    ELSE updated

(* the two repository calls of record_decision_outcome on the found row *)
record_outcome(d, outcome, lessons_learned, t) ==
    LET updated == update_outcome(d, outcome, lessons_learned, t) IN
    IF updated.status # "executed"
    THEN update_status(updated, "executed", Null, Null, t)
    ELSE updated

(* POST /api/decisions/{decision_id}/outcome *)
record_decision_outcome(u, id, outcome, lessons_learned) ==
    IF ~Exists(id)
    THEN /\ dec_resp' = Reply("outcome", u, id, outcome, 404, <<>>)
         /\ UNCHANGED <<decisions, bg_tasks>>
    ELSE IF ~may_read(decisions[id], CurrentUser(u))
    THEN /\ dec_resp' = Reply("outcome", u, id, outcome, 403, <<>>)
         /\ UNCHANGED <<decisions, bg_tasks>>
    ELSE /\ decisions' = [decisions EXCEPT
                            ![id] = record_outcome(@, outcome, lessons_learned, now)]
         /\ dec_resp' = Reply("outcome", u, id, outcome, 200, <<>>)
         /\ UNCHANGED bg_tasks

(* the result of a phase handler, made from the phase and its inputs *)
phase_handler(phase, phase_inputs) == [phase |-> phase, inputs |-> phase_inputs]

(* DecisionService.support_mdmp on the found row: mdmp_phase is assigned;  *)
(* mdmp_data is assigned a fresh dict only when it was empty, and that     *)
(* dict is stored with the new entry; a dict that was not empty is changed *)
(* in place, which the plain JSONB column does not notice, so the commit   *)
(* stores nothing for it                                                   *)
support_mdmp(d, phase, phase_inputs) ==
    [d EXCEPT !.mdmp_phase = phase,
              !.mdmp_data = IF @ = <<>>
                            THEN [p \in {phase} |-> phase_handler(phase, phase_inputs)]
                            ELSE @]

(* POST /api/decisions/{decision_id}/mdmp/{phase} *)
support_mdmp_phase(u, id, phase, phase_inputs) ==
    IF ~Exists(id)
    THEN /\ dec_resp' = Reply("mdmp", u, id, phase, 404, <<>>)
         /\ UNCHANGED <<decisions, bg_tasks>>
    ELSE IF ~is_owner(decisions[id], CurrentUser(u))
    THEN /\ dec_resp' = Reply("mdmp", u, id, phase, 403, <<>>)
         /\ UNCHANGED <<decisions, bg_tasks>>
    ELSE IF phase \notin MDMP_PHASES
    THEN /\ dec_resp' = Reply("mdmp", u, id, phase, 400, <<>>)
         /\ UNCHANGED <<decisions, bg_tasks>>
    ELSE /\ decisions' = [decisions EXCEPT ![id] = support_mdmp(@, phase, phase_inputs)]
         /\ dec_resp' = Reply("mdmp", u, id, phase, 200,
                              <<phase_handler(phase, phase_inputs)>>)
         /\ UNCHANGED bg_tasks

DefaultCoas == <<"immediate action", "delayed action", "alternative approach">>

(* background task _perform_automatic_analysis(decision_id, db) *)
perform_automatic_analysis(id, best, llm_ok) ==
    /\ id \in bg_tasks
    /\ bg_tasks' = bg_tasks \ {id}
    /\ dec_resp' = Reply("auto-analysis", Null, id, Null, 0, <<>>)
    /\ decisions' =
         IF Exists(id) /\ decisions[id].coa_analysis = <<>> /\ llm_ok
         THEN [decisions EXCEPT ![id] = analyze_coa_service(@, DefaultCoas, best, now)]
         ELSE decisions

(* ---- the pending-decisions query ---- *)

MaxRows == 3
MaxLimit == 2

(* a row the decisions table may hold: any owner, status and priority; the *)
(* created_at default (utcnow at insert) grows with every insert           *)
insert_decision_row(user_id, status, priority) ==
    /\ Len(decisions) < MaxRows
    /\ decisions' = Append(decisions,
                       [DecisionRepository_create(user_id, "t1", priority,
                                                  Len(decisions) + 1)
                          EXCEPT !.status = status])
    /\ dec_resp' = Reply("insert", user_id, Len(decisions) + 1, Null, 0, <<>>)
    /\ UNCHANGED bg_tasks

(* desc(<boolean expression>): TRUE sorts before FALSE *)
Desc(b) == IF b THEN 1 ELSE 0

(* ORDER BY created_at DESC alone *)
OrderByCreatedOnly(a, b) == a.created_at >= b.created_at

(* the ORDER BY clause of get_pending_decisions: a sorts no later than b *)
OrderBy(a, b) ==
    LET f1 == Desc(a.priority = "flash")      f2 == Desc(b.priority = "flash")
        i1 == Desc(a.priority = "immediate")  i2 == Desc(b.priority = "immediate")
        p1 == Desc(a.priority = "priority")   p2 == Desc(b.priority = "priority")
    IN  \/ f1 > f2
        \/ f1 = f2 /\ i1 > i2
        \/ f1 = f2 /\ i1 = i2 /\ p1 > p2
        \/ f1 = f2 /\ i1 = i2 /\ p1 = p2 /\ a.created_at >= b.created_at

(* the rows of a set in ORDER BY order *)
RECURSIVE Sorted(_)
Sorted(rows) ==
    IF rows = {} THEN <<>>
    ELSE LET first == CHOOSE a \in rows : \A b \in rows : OrderBy(a, b)
         IN  <<first>> \o Sorted(rows \ {first})

(* LIMIT n *)
Limit(s, n) == SubSeq(s, 1, IF Len(s) < n THEN Len(s) ELSE n)

(* DecisionRepository.get_pending_decisions(user_id, limit) on table rows *)
query_pending_decisions(table, user_id, limit) ==
    LET matching == {table[i] : i \in {j \in DOMAIN table :
                        /\ table[j].status = "pending"
                        /\ (user_id # Null => table[j].user_id = user_id)}}
    IN  Limit(Sorted(matching), limit)

(* a pending-list endpoint that hands every caller the unfiltered list *)
pending_scope_all(current_user) == Null

(* the user_id argument the pending-list endpoint passes to the repository *)
pending_scope(current_user) ==
    IF current_user.role = "commander" THEN Null ELSE current_user.id

(* GET /api/decisions/pending *)
get_pending_decisions(u, limit) ==
    /\ dec_resp' = Reply("pending", u, 0, limit, 200,
                         query_pending_decisions(decisions,
                                                 pending_scope(CurrentUser(u)), limit))
    /\ UNCHANGED <<decisions, bg_tasks>>

PendNext ==
    \/ \E user_id \in Creators, status \in {"draft", "pending"},
          priority \in DecisionPriority : insert_decision_row(user_id, status, priority)
    \/ \E u \in UserIds, limit \in 1..MaxLimit : get_pending_decisions(u, limit)

DecisionIds == 1..MaxDecisions

DecInit ==
    /\ decisions = <<>>
    /\ bg_tasks = {}
    /\ dec_resp = Reply("none", Null, 0, Null, 0, <<>>)

DecNext ==
    \/ \E u \in Creators, title \in Titles, priority \in CreatePriorities,
          llm_ok \in BOOLEAN : create_decision(u, title, priority, llm_ok)
    \/ \E u \in UserIds, id \in DecisionIds : get_decision(u, id)
    \/ \E u \in UserIds, id \in DecisionIds, update \in UpdateBodies :
          update_decision(u, id, update)
    \/ \E u \in UserIds, id \in DecisionIds, coas \in CoaLists, llm_ok \in BOOLEAN :
          \E best \in 1..Len(coas) : analyze_courses_of_action(u, id, coas, best, llm_ok)
    \/ \E u \in UserIds, id \in DecisionIds, m \in RiskMatrices, llm_ok \in BOOLEAN :
          assess_decision_risk(u, id, m, llm_ok)
    \/ \E u \in UserIds, id \in DecisionIds, status \in ApprovalStatus,
          reason \in Reasons : approve_decision(u, id, status, reason)
    \/ \E u \in UserIds, id \in DecisionIds, outcome \in Outcomes,
          lessons \in Lessons : record_decision_outcome(u, id, outcome, lessons)
    \/ \E u \in UserIds, id \in DecisionIds, phase \in MdmpPhases,
          phase_inputs \in PhaseInputs : support_mdmp_phase(u, id, phase, phase_inputs)
    \/ \E id \in DecisionIds, llm_ok \in BOOLEAN :
          \E best \in {1} : perform_automatic_analysis(id, best, llm_ok)

(* the MDMP calls of a decision's owner and of others, over several phases *)
MdmpCallPhases == MdmpPhases \cup {"mission_analysis"}
MdmpCallInputs == PhaseInputs \cup {"i2"}

MdmpNext ==
    \/ \E u \in Creators, title \in Titles, priority \in CreatePriorities,
          llm_ok \in BOOLEAN : create_decision(u, title, priority, llm_ok)
    \/ \E u \in UserIds, id \in DecisionIds : get_decision(u, id)
    \/ \E u \in UserIds, id \in DecisionIds, phase \in MdmpCallPhases,
          phase_inputs \in MdmpCallInputs : support_mdmp_phase(u, id, phase, phase_inputs)
    \/ \E id \in DecisionIds, llm_ok \in BOOLEAN :
          \E best \in {1} : perform_automatic_analysis(id, best, llm_ok)

(* ======================= conversations ================================= *)

MaxConversations == 1
MaxMessages == 2
MaxTasks == 2

ConversationIds == 1..MaxConversations
Contents == {"hello"}
Summaries == {"summary"}

ConvExists(c) == c \in DOMAIN conversations

(* the rows of the messages table that belong to conversation c, oldest first *)
MessagesOf(c) == SelectSeq(messages, LAMBDA m : m.conversation_id = c)

(* what a handler answered: the request (op, caller, conversation id and   *)
(* the metadata arg of a create), the HTTP status code and the body        *)
ConvReplyTo(op, u, c, arg, code, convs, msgs) ==
    [op |-> op, caller |-> u, conversation_id |-> c, arg |-> arg, code |-> code,
     conversation |-> convs, messages |-> msgs]
ConvReply(op, u, c, code, convs, msgs) == ConvReplyTo(op, u, c, {}, code, convs, msgs)

(* ConversationResponse.from_orm: the stored conversation_metadata column  *)
(* is returned under the name metadata                                     *)
ConversationResponse_from_orm(obj) ==
    [user_id |-> obj.user_id, title |-> obj.title, metadata |-> obj.conversation_metadata,
     summary |-> obj.summary, message_count |-> obj.message_count,
     last_message_at |-> obj.last_message_at,
     created_at |-> obj.created_at, updated_at |-> obj.updated_at]

(* metadata objects of a ConversationCreate body, as sets of key/value pairs *)
Metadatas == {{}, {<<"k", "v">>}}

(* get_or_create_conversation of the WebSocket chat endpoint: the session  *)
(* id names the conversation, which is created for the connecting user     *)
get_or_create_conversation(u, c) ==
    /\ ~ConvExists(c)
    /\ conversations' = [x \in DOMAIN conversations \cup {c} |->
                           IF x = c
                           THEN [user_id |-> u, title |-> "Chat Session",
                                 conversation_metadata |-> {},
                                 summary |-> Null, message_count |-> 0,
                                 last_message_at |-> None,
                                 created_at |-> now, updated_at |-> now]
                           ELSE conversations[x]]
    /\ conv_resp' = ConvReply("ws-create", u, c, 0, <<>>, <<>>)
    /\ UNCHANGED <<messages, conv_tasks>>

(* the keyword arguments create_conversation passes to repo.create *)
create_call_keywords ==
    {"user_id", "title", "type", "classification", "mission_id", "context",
     "metadata", "tags"}

(* the parameters ConversationRepository.create declares *)
ConversationRepository_create_params ==
    {"user_id", "title", "type", "classification", "mission_id", "context",
     "conversation_metadata", "tags"}

(* a Python call binds its keywords only if the function declares each of  *)
(* them; otherwise it raises TypeError                                     *)
CallBinds(keywords, params) == keywords \subseteq params

(* POST /api/conversations/ : the TypeError of the repository call is      *)
(* caught by the handler's "except Exception" and answered 500             *)
create_conversation(u, metadata) ==
    IF ~CallBinds(create_call_keywords, ConversationRepository_create_params)
    THEN /\ conv_resp' = ConvReplyTo("create", u, 0, metadata, 500, <<>>, <<>>)
         /\ UNCHANGED <<conversations, messages, conv_tasks>>
    ELSE \E c \in ConversationIds :
         /\ ~ConvExists(c)
         /\ conversations' = [x \in DOMAIN conversations \cup {c} |->
                                IF x = c
                                THEN [user_id |-> CurrentUser(u).id, title |-> "t1",
                                      conversation_metadata |-> metadata,
                                      summary |-> Null, message_count |-> 0,
                                      last_message_at |-> None,
                                      created_at |-> now, updated_at |-> now]
                                ELSE conversations[x]]
         /\ conv_resp' = ConvReplyTo("create", u, c, metadata, 200,
                                     <<ConversationResponse_from_orm(conversations'[c])>>,
                                     <<>>)
         /\ UNCHANGED <<messages, conv_tasks>>

(* a prologue that tests existence only *)
AccessExistenceOnly(u, c) ==
    IF ~ConvExists(c) THEN 404 ELSE 0

(* the 404 / 403 prologue shared by the conversation-scoped handlers:      *)
(* 0 when the request may proceed                                          *)
Access(u, c) ==
    IF ~ConvExists(c) THEN 404
    ELSE IF conversations[c].user_id # CurrentUser(u).id THEN 403
    ELSE 0

(* GET /api/conversations/{conversation_id} *)
get_conversation(u, c, include_messages) ==
    /\ conv_resp' =
         IF Access(u, c) # 0 THEN ConvReply("get", u, c, Access(u, c), <<>>, <<>>)
         ELSE ConvReply("get", u, c, 200, <<ConversationResponse_from_orm(conversations[c])>>,
                        IF include_messages THEN MessagesOf(c) ELSE <<>>)
    /\ UNCHANGED <<conversations, messages, conv_tasks>>

(* PATCH /api/conversations/{conversation_id} : ConversationRepository.update *)
(* is called with a keyword it does not accept, which ends in the 500       *)
update_conversation(u, c) ==
    /\ conv_resp' =
         IF Access(u, c) # 0 THEN ConvReply("patch", u, c, Access(u, c), <<>>, <<>>)
         ELSE ConvReply("patch", u, c, 500, <<>>, <<>>)
    /\ UNCHANGED <<conversations, messages, conv_tasks>>

(* ConversationRepository.delete with the cascade to the messages *)
ConversationRepository_delete(c) ==
    /\ conversations' = [x \in DOMAIN conversations \ {c} |-> conversations[x]]
    /\ messages' = SelectSeq(messages, LAMBDA m : m.conversation_id # c)

(* DELETE /api/conversations/{conversation_id} *)
delete_conversation(u, c) ==
    IF Access(u, c) # 0
    THEN /\ conv_resp' = ConvReply("delete", u, c, Access(u, c), <<>>, <<>>)
         /\ UNCHANGED <<conversations, messages, conv_tasks>>
    ELSE /\ ConversationRepository_delete(c)
         /\ conv_resp' = ConvReply("delete", u, c, 200, <<>>, <<>>)
         /\ UNCHANGED conv_tasks

(* background task ConversationRepository.update_message_count, as it is   *)
(* scheduled: nothing read yet                                             *)
NewCountTask(c) ==
    [conversation_id |-> c, pc |-> "count", message_count |-> 0,
     last_message_at |-> None]

(* POST /api/conversations/{conversation_id}/messages *)
add_message(u, c, content) ==
    IF Access(u, c) # 0
    THEN /\ conv_resp' = ConvReply("add-message", u, c, Access(u, c), <<>>, <<>>)
         /\ UNCHANGED <<conversations, messages, conv_tasks>>
    ELSE /\ Len(messages) < MaxMessages
         /\ Len(conv_tasks) < MaxTasks
         /\ LET m == [conversation_id |-> c, user_id |-> CurrentUser(u).id,
                      role |-> "user", content |-> content, created_at |-> now]
            IN  /\ messages' = Append(messages, m)
                /\ conv_resp' = ConvReply("add-message", u, c, 200, <<>>, <<m>>)
         /\ conv_tasks' = Append(conv_tasks, NewCountTask(c))
         /\ UNCHANGED conversations

(* GET /api/conversations/{conversation_id}/messages *)
get_messages(u, c) ==
    /\ conv_resp' =
         IF Access(u, c) # 0 THEN ConvReply("get-messages", u, c, Access(u, c), <<>>, <<>>)
         ELSE ConvReply("get-messages", u, c, 200, <<>>, MessagesOf(c))
    /\ UNCHANGED <<conversations, messages, conv_tasks>>

(* POST /api/conversations/{conversation_id}/messages/search *)
search_messages(u, c, query) ==
    /\ conv_resp' =
         IF Access(u, c) # 0 THEN ConvReply("search-messages", u, c, Access(u, c), <<>>, <<>>)
         ELSE ConvReply("search-messages", u, c, 200, <<>>,
                        SelectSeq(MessagesOf(c), LAMBDA m : m.content = query))
    /\ UNCHANGED <<conversations, messages, conv_tasks>>

(* POST /api/conversations/{conversation_id}/summarize *)
generate_summary(u, c, summary, llm_ok) ==
    IF Access(u, c) # 0
    THEN /\ conv_resp' = ConvReply("summarize", u, c, Access(u, c), <<>>, <<>>)
         /\ UNCHANGED <<conversations, messages, conv_tasks>>
    ELSE IF MessagesOf(c) = <<>>
    THEN /\ conv_resp' = ConvReply("summarize", u, c, 200, <<>>, <<>>)
         /\ UNCHANGED <<conversations, messages, conv_tasks>>
    ELSE IF ~llm_ok
    THEN /\ conv_resp' = ConvReply("summarize", u, c, 500, <<>>, <<>>)
         /\ UNCHANGED <<conversations, messages, conv_tasks>>
    ELSE /\ conversations' = [conversations EXCEPT ![c].summary = summary,
                                                    ![c].updated_at = now]
         /\ conv_resp' = ConvReply("summarize", u, c, 200, <<conversations'[c]>>, <<>>)
         /\ UNCHANGED <<messages, conv_tasks>>

(* POST /api/conversations/{conversation_id}/export *)
export_conversation(u, c, include_messages) ==
    /\ conv_resp' =
         IF Access(u, c) # 0 THEN ConvReply("export", u, c, Access(u, c), <<>>, <<>>)
         ELSE ConvReply("export", u, c, 200, <<conversations[c]>>,
                        IF include_messages THEN MessagesOf(c) ELSE <<>>)
    /\ UNCHANGED <<conversations, messages, conv_tasks>>

(* a list without its i-th element *)
RemoveAt(l, i) == SubSeq(l, 1, i - 1) \o SubSeq(l, i + 1, Len(l))

(* select Message.created_at ... order_by(desc(created_at)).limit(1) *)
LastCreatedAt(c) ==
    IF MessagesOf(c) = <<>> THEN None
    ELSE LET rows == MessagesOf(c)
             stamps == {rows[k].created_at : k \in 1..Len(rows)}
         IN  CHOOSE t \in stamps : \A o \in stamps : o <= t

(* update_message_count, first await: the count query *)
count_query(i) ==
    /\ i \in 1..Len(conv_tasks)
    /\ conv_tasks[i].pc = "count"
    /\ conv_tasks' = [conv_tasks EXCEPT
                         ![i].message_count = Len(MessagesOf(conv_tasks[i].conversation_id)),
                         ![i].pc = "last"]
    /\ conv_resp' = ConvReply("recount", Null, conv_tasks[i].conversation_id, 0, <<>>, <<>>)
    /\ UNCHANGED <<conversations, messages>>

(* update_message_count, second await: the last-message query *)
last_msg_query(i) ==
    /\ i \in 1..Len(conv_tasks)
    /\ conv_tasks[i].pc = "last"
    /\ conv_tasks' = [conv_tasks EXCEPT
                         ![i].last_message_at = LastCreatedAt(conv_tasks[i].conversation_id),
                         ![i].pc = "write"]
    /\ conv_resp' = ConvReply("recount", Null, conv_tasks[i].conversation_id, 0, <<>>, <<>>)
    /\ UNCHANGED <<conversations, messages>>

(* update_message_count, the rest: load the conversation, assign what was  *)
(* read and commit; the task is then over                                  *)
update_message_count(i) ==
    /\ i \in 1..Len(conv_tasks)
    /\ conv_tasks[i].pc = "write"
    /\ LET c == conv_tasks[i].conversation_id
       IN  /\ conv_resp' = ConvReply("recount", Null, c, 0, <<>>, <<>>)
           /\ conversations' =
                IF ConvExists(c)
                THEN [conversations EXCEPT
                        ![c].message_count = conv_tasks[i].message_count,
                        ![c].last_message_at = conv_tasks[i].last_message_at,
                        ![c].updated_at = now]
                ELSE conversations
    /\ conv_tasks' = RemoveAt(conv_tasks, i)
    /\ UNCHANGED messages

ConvInit ==
    /\ conversations = <<>>
    /\ messages = <<>>
    /\ conv_tasks = <<>>
    /\ conv_resp = ConvReply("none", Null, 0, 0, <<>>, <<>>)

ConvNext ==
    \/ \E u \in Creators, c \in ConversationIds : get_or_create_conversation(u, c)
    \/ \E u \in UserIds, metadata \in Metadatas : create_conversation(u, metadata)
    \/ \E u \in UserIds, c \in ConversationIds, inc \in BOOLEAN : get_conversation(u, c, inc)
    \/ \E u \in UserIds, c \in ConversationIds : update_conversation(u, c)
    \/ \E u \in UserIds, c \in ConversationIds : delete_conversation(u, c)
    \/ \E u \in UserIds, c \in ConversationIds, content \in Contents :
          add_message(u, c, content)
    \/ \E u \in UserIds, c \in ConversationIds : get_messages(u, c)
    \/ \E u \in UserIds, c \in ConversationIds, q \in Contents : search_messages(u, c, q)
    \/ \E u \in UserIds, c \in ConversationIds, summary \in Summaries, llm_ok \in BOOLEAN :
          generate_summary(u, c, summary, llm_ok)
    \/ \E u \in UserIds, c \in ConversationIds, inc \in BOOLEAN :
          export_conversation(u, c, inc)
    \/ \E i \in 1..MaxTasks : count_query(i)
    \/ \E i \in 1..MaxTasks : last_msg_query(i)
    \/ \E i \in 1..MaxTasks : update_message_count(i)

(* ===================== health endpoints (routers/health.py) ============ *)

(* what the LLM endpoint does with the two probes of the check:            *)
(* GET {base}/health answered below 500, answered 500 or above, failing    *)
(* while OPTIONS on the endpoint is answered, or both failing              *)
LlmStates == {"health_ok", "health_5xx", "options_only", "down"}

(* RedisService.ping: a failure of the client's ping is caught and turned  *)
(* into the return value False; the call itself does not raise             *)
RedisService_ping(reachable) == [raised |-> FALSE, value |-> reachable]

(* RedisService.connect: logs and re-raises the failure of its ping *)
RedisService_connect(reachable) == [raised |-> ~reachable]

(* get_redis: the module-level instance is assigned before connect() runs, *)
(* so a failed connect leaves the instance in place for later requests     *)
get_redis(instance, reachable) ==
    IF instance = "None"
    THEN [raised |-> RedisService_connect(reachable).raised,
          instance |-> "RedisService"]
    ELSE [raised |-> FALSE, instance |-> instance]

(* the three sub-checks of detailed_health_check *)
database_check(up) == IF up THEN "healthy" ELSE "unhealthy"

redis_check(reachable) ==
    IF RedisService_ping(reachable).raised THEN "unhealthy" ELSE "healthy"

llm_check(llm) ==
    CASE llm = "health_ok" -> "healthy"
      [] llm = "health_5xx" -> "unhealthy"
      [] llm = "options_only" -> "healthy"
      [] OTHER -> "unhealthy"

(* the environment a request met, kept with its answer *)
Env == [db |-> db_up, redis |-> redis_up, llm |-> llm_endpoint]

NoServices == [database |-> "unknown", redis |-> "unknown", llm_endpoint |-> "unknown"]

HealthReply(op, code, status, services) ==
    [op |-> op, code |-> code, status |-> status, services |-> services, env |-> Env]

(* GET /health *)
health_check ==
    /\ health_resp' = HealthReply("health", 200, "healthy", NoServices)
    /\ UNCHANGED <<db_up, redis_up, llm_endpoint, redis_service_instance>>

(* GET /health/detailed : the get_redis dependency runs before the body;   *)
(* an exception it raises is answered by the application's 500 handler     *)
detailed_health_check ==
    LET dep == get_redis(redis_service_instance, redis_up)
        services == [database |-> database_check(db_up),
                     redis |-> redis_check(redis_up),
                     llm_endpoint |-> llm_check(llm_endpoint)]
        status == IF \E k \in DOMAIN services : services[k] = "unhealthy"
                  THEN "degraded" ELSE "healthy"
    IN  /\ redis_service_instance' = dep.instance
        /\ health_resp' =
             IF dep.raised THEN HealthReply("detailed", 500, "error", NoServices)
             ELSE HealthReply("detailed", 200, status, services)
        /\ UNCHANGED <<db_up, redis_up, llm_endpoint>>

(* GET /ready *)
readiness_check ==
    LET dep == get_redis(redis_service_instance, redis_up)
        raised == ~db_up \/ RedisService_ping(redis_up).raised
    IN  /\ redis_service_instance' = dep.instance
        /\ health_resp' =
             IF dep.raised THEN HealthReply("ready", 500, "error", NoServices)
             ELSE HealthReply("ready", 200,
                              IF raised THEN "not_ready" ELSE "ready", NoServices)
        /\ UNCHANGED <<db_up, redis_up, llm_endpoint>>

(* GET /live *)
liveness_check ==
    /\ health_resp' = HealthReply("live", 200, "alive", NoServices)
    /\ UNCHANGED <<db_up, redis_up, llm_endpoint, redis_service_instance>>

(* the dependencies come and go *)
database_changes ==
    /\ db_up' = ~db_up
    /\ UNCHANGED <<redis_up, llm_endpoint, redis_service_instance, health_resp>>

redis_changes ==
    /\ redis_up' = ~redis_up
    /\ UNCHANGED <<db_up, llm_endpoint, redis_service_instance, health_resp>>

llm_changes(llm) ==
    /\ llm # llm_endpoint
    /\ llm_endpoint' = llm
    /\ UNCHANGED <<db_up, redis_up, redis_service_instance, health_resp>>

(* after the lifespan startup, which connects to the database and to Redis *)
HealthInit ==
    /\ db_up = TRUE
    /\ redis_up = TRUE
    /\ llm_endpoint = "health_ok"
    /\ redis_service_instance = "None"
    /\ health_resp = [op |-> "none", code |-> 0, status |-> "none",
                      services |-> NoServices,
                      env |-> [db |-> TRUE, redis |-> TRUE, llm |-> "health_ok"]]

HealthNext ==
    \/ health_check
    \/ detailed_health_check
    \/ readiness_check
    \/ liveness_check
    \/ database_changes
    \/ redis_changes
    \/ \E llm \in LlmStates : llm_changes(llm)

(* ============ WebSocket connection manager (websocket_manager.py) ======= *)

MaxSockets == 2
MaxStreams == 1
MaxChunks == 2

(* the WebSocket objects, by number *)
Sockets == 1..MaxSockets
SessionIds == {"A", "B"}
MessageIds == {"m1", "m2"}

(* text is a sequence of characters, so that concatenation is computed *)
Chunks == {<<"a">>, <<"b", "c">>}

(* user_info of a connection: None, or a dict with a username *)
NoUserInfo == [is_none |-> TRUE, username |-> "None"]
UserInfo(username) == [is_none |-> FALSE, username |-> username]
UserInfos == {NoUserInfo, UserInfo("alice")}

(* no socket: the default of broadcast_to_session's exclude *)
NoSocket == 0

(* a dict after "del d[k]" / d.pop(k, None), and after "d[k] = v" *)
dict_del(d, k) == [x \in DOMAIN d \ {k} |-> d[x]]
dict_set(d, k, v) == [x \in DOMAIN d \cup {k} |-> IF x = k THEN v ELSE d[x]]

(* list.remove of a socket that occurs at most once in the list *)
list_remove(l, w) == SelectSeq(l, LAMBDA c : c # w)

ListElems(l) == {l[i] : i \in 1..Len(l)}

(* a WebSocket endpoint that is not running *)
IdleSocket == [client_state |-> "idle", session_id |-> "None", user_info |-> NoUserInfo]

(* the sockets a broadcast to session_id iterates over *)
all_connections(connections, session_id) ==
    UNION {ListElems(connections[s]) : s \in DOMAIN connections}
session_connections(connections, session_id) ==
    IF session_id \in DOMAIN connections THEN ListElems(connections[session_id]) ELSE {}

(* broadcast_to_session: send to every connection of the session except   *)
(* exclude; a connection that is not CONNECTED, or whose send fails, is    *)
(* removed from the session's list and from connection_users. The result   *)
(* is the set of sockets sent to and the two dicts after the clean-up.     *)
broadcast_to_session(connections, users, state, session_id, exclude) ==
    LET targets == session_connections(connections, session_id) \ {exclude}
        recipients == {c \in targets : state[c].client_state = "CONNECTED"}
        disconnected == targets \ recipients
    IN  IF session_id \notin DOMAIN connections
        THEN [recipients |-> {}, active_connections |-> connections,
              connection_users |-> users]
        ELSE [recipients |-> recipients,
              active_connections |->
                  [connections EXCEPT ![session_id] =
                      SelectSeq(@, LAMBDA c : c \notin disconnected)],
              connection_users |->
                  [x \in DOMAIN users \ disconnected |-> users[x]]]

(* the messages of one step, as delivered to the sockets *)
Broadcast(recipients, session_id, type) ==
    {[to |-> c, kind |-> "broadcast", session_id |-> session_id, type |-> type,
      step |-> 1] : c \in recipients}
Personal(websocket, session_id, type) ==
    [to |-> websocket, kind |-> "personal", session_id |-> session_id, type |-> type,
     step |-> 1]

(* messages sent by the second send of a call *)
Then(msgs) == {[m EXCEPT !.step = 2] : m \in msgs}

(* the call just made on the manager: the operation, its socket and       *)
(* session, and the sockets the session listed when the call began         *)
WsCall(op, websocket, session_id) ==
    [op |-> op, websocket |-> websocket, session_id |-> session_id,
     connections_before |-> session_connections(active_connections, session_id)]

(* get_active_sessions *)
get_active_sessions == DOMAIN active_connections

(* the handler of a socket is inside stream_llm_response; owner and        *)
(* session_id of a relay are the caller's locals and are gone on return    *)
Streaming(w) ==
    \E k \in DOMAIN streams : streams[k].status = "running" /\ streams[k].owner = w

(* connect: accept, register under the session, remember the user, create  *)
(* the session's typing set, confirm to the socket and tell the others     *)
connect(websocket, session_id, user_info) ==
    /\ sockets[websocket].client_state = "idle"
    /\ LET state == [sockets EXCEPT ![websocket] =
                        [client_state |-> "CONNECTED", session_id |-> session_id,
                         user_info |-> user_info]]
           registered ==
               IF session_id \in DOMAIN active_connections
               THEN [active_connections EXCEPT ![session_id] = Append(@, websocket)]
               ELSE dict_set(active_connections, session_id, <<websocket>>)
           users == IF ~user_info.is_none
                    THEN dict_set(connection_users, websocket, user_info)
                    ELSE connection_users
           b == broadcast_to_session(registered, users, state, session_id, websocket)
       IN  /\ sockets' = state
           /\ typing_users' = IF session_id \in DOMAIN typing_users THEN typing_users
                              ELSE dict_set(typing_users, session_id, {})
           /\ IF ~user_info.is_none
              THEN /\ active_connections' = b.active_connections
                   /\ connection_users' = b.connection_users
                   /\ sent' = {Personal(websocket, session_id, "connection")}
                                \cup Then(Broadcast(b.recipients, session_id, "user_joined"))
              ELSE /\ active_connections' = registered
                   /\ connection_users' = users
                   /\ sent' = {Personal(websocket, session_id, "connection")}
    /\ ws_resp' = WsCall("connect", websocket, session_id)
    /\ UNCHANGED streams

(* disconnect, lines 89-93: a session left without connections is removed *)
(* together with its typing set                                           *)
keep_empty_session(connections, typing, session_id) ==
    [active_connections |-> connections, typing_users |-> typing]
drop_empty_session(connections, typing, session_id) ==
    IF connections[session_id] = <<>>
    THEN [active_connections |-> dict_del(connections, session_id),
          typing_users |-> dict_del(typing, session_id)]
    ELSE [active_connections |-> connections, typing_users |-> typing]

(* disconnect: called by the endpoint when its receive loop ends; the      *)
(* endpoint then returns                                                   *)
disconnect(websocket) ==
    /\ sockets[websocket].client_state # "idle"
    /\ ~Streaming(websocket)
    /\ LET session_id == sockets[websocket].session_id
           state == [sockets EXCEPT ![websocket] = IdleSocket]
           removed ==
               IF session_id \in DOMAIN active_connections
               THEN drop_empty_session(
                       [active_connections EXCEPT ![session_id] = list_remove(@, websocket)],
                       typing_users, session_id)
               ELSE [active_connections |-> active_connections,
                     typing_users |-> typing_users]
           user_info == IF websocket \in DOMAIN connection_users
                        THEN connection_users[websocket] ELSE NoUserInfo
           users == dict_del(connection_users, websocket)
           typing == IF session_id \in DOMAIN removed.typing_users /\ ~user_info.is_none
                     THEN [removed.typing_users EXCEPT ![session_id] = @ \ {user_info.username}]
                     ELSE removed.typing_users
           b == broadcast_to_session(removed.active_connections, users, state,
                                     session_id, NoSocket)
       IN  /\ sockets' = state
           /\ typing_users' = typing
           /\ IF ~user_info.is_none
              THEN /\ active_connections' = b.active_connections
                   /\ connection_users' = b.connection_users
                   /\ sent' = Broadcast(b.recipients, session_id, "user_left")
              ELSE /\ active_connections' = removed.active_connections
                   /\ connection_users' = users
                   /\ sent' = {}
    /\ ws_resp' = WsCall("disconnect", websocket, sockets[websocket].session_id)
    /\ UNCHANGED streams

(* the client goes away; the endpoint has not yet noticed *)
client_drops(websocket) ==
    /\ sockets[websocket].client_state = "CONNECTED"
    /\ sockets' = [sockets EXCEPT ![websocket].client_state = "DISCONNECTED"]
    /\ sent' = {}
    /\ ws_resp' = WsCall("client_drops", websocket, sockets[websocket].session_id)
    /\ UNCHANGED <<active_connections, connection_users, typing_users, streams>>

(* handle_typing, called by the endpoint of websocket for a typing_start   *)
(* or typing_stop message with its own session and username                *)
handle_typing(websocket, is_typing) ==
    /\ sockets[websocket].client_state # "idle"
    /\ ~sockets[websocket].user_info.is_none
    /\ ~Streaming(websocket)
    /\ LET session_id == sockets[websocket].session_id
           username == sockets[websocket].user_info.username
           typing == IF session_id \in DOMAIN typing_users THEN typing_users
                     ELSE dict_set(typing_users, session_id, {})
           b == broadcast_to_session(active_connections, connection_users, sockets,
                                     session_id, NoSocket)
       IN  /\ typing_users' =
                [typing EXCEPT ![session_id] =
                    IF is_typing THEN @ \cup {username} ELSE @ \ {username}]
           /\ active_connections' = b.active_connections
           /\ connection_users' = b.connection_users
           /\ sent' = Broadcast(b.recipients, session_id, "typing_update")
           /\ ws_resp' = WsCall("handle_typing", websocket, session_id)
    /\ UNCHANGED <<sockets, streams>>

(* one broadcast made by stream_llm_response or handle_user_message *)
SessionBroadcast(session_id, type) ==
    LET b == broadcast_to_session(active_connections, connection_users, sockets,
                                  session_id, NoSocket)
    IN  /\ active_connections' = b.active_connections
        /\ connection_users' = b.connection_users
        /\ sent' = Broadcast(b.recipients, session_id, type)
        /\ ws_resp' = WsCall("broadcast_to_session", NoSocket, session_id)

IdleStream ==
    [status |-> "idle", owner |-> NoSocket, session_id |-> "None", message_id |-> "None",
     chunks |-> <<>>, full_content |-> <<>>, events |-> <<>>]

(* the three messages of stream_llm_response *)
llm_stream(message_id, chunk) ==
    [type |-> "llm_stream", message_id |-> message_id, content |-> chunk]
llm_complete(message_id, full_content) ==
    [type |-> "llm_complete", message_id |-> message_id, content |-> full_content]
error_event(message_id, full_content) ==
    [type |-> "error", message_id |-> message_id, content |-> <<>>]

(* the except branch of stream_llm_response; first a relay that completes *)
(* all the same                                                            *)
on_failure_completes(message_id, full_content) == llm_complete(message_id, full_content)
on_failure(message_id, full_content) == error_event(message_id, full_content)

(* handle_user_message up to the call of stream_llm_response: the user's   *)
(* message is broadcast and the relay of the answer begins                 *)
handle_user_message(websocket, k, ai_message_id) ==
    /\ sockets[websocket].client_state # "idle"
    /\ ~Streaming(websocket)
    /\ streams[k].status # "running"
    /\ SessionBroadcast(sockets[websocket].session_id, "user_message")
    /\ streams' = [streams EXCEPT ![k] =
                      [status |-> "running", owner |-> websocket,
                       session_id |-> sockets[websocket].session_id,
                       message_id |-> ai_message_id,
                       chunks |-> <<>>, full_content |-> <<>>, events |-> <<>>]]
    /\ UNCHANGED <<sockets, typing_users>>

(* stream_llm_response, one round of the loop: the generator yields chunk *)
stream_chunk(k, chunk) ==
    /\ streams[k].status = "running"
    /\ Len(streams[k].chunks) < MaxChunks
    /\ SessionBroadcast(streams[k].session_id, "llm_stream")
    /\ streams' = [streams EXCEPT
                      ![k].chunks = Append(@, chunk),
                      ![k].full_content = @ \o chunk,
                      ![k].events = Append(@, llm_stream(streams[k].message_id, chunk))]
    /\ UNCHANGED <<sockets, typing_users>>

(* stream_llm_response: the generator is exhausted *)
stream_end(k) ==
    /\ streams[k].status = "running"
    /\ SessionBroadcast(streams[k].session_id, "llm_complete")
    /\ streams' = [streams EXCEPT
                      ![k].status = "complete",
                      ![k].owner = NoSocket, ![k].session_id = "None",
                      ![k].events = Append(@, llm_complete(streams[k].message_id,
                                                           streams[k].full_content))]
    /\ UNCHANGED <<sockets, typing_users>>

(* stream_llm_response: the generator raises *)
stream_raises(k) ==
    /\ streams[k].status = "running"
    /\ SessionBroadcast(streams[k].session_id, "error")
    /\ streams' = [streams EXCEPT
                      ![k].status = "failed",
                      ![k].owner = NoSocket, ![k].session_id = "None",
                      ![k].events = Append(@, on_failure(streams[k].message_id,
                                                         streams[k].full_content))]
    /\ UNCHANGED <<sockets, typing_users>>

(* websocket_chat up to manager.connect: a client without a valid token   *)
(* gets the identity Anonymous, and user_info is a dict in both cases      *)
NoUser == "None"
ChatUsers == {NoUser, "alice", "bob"}
chat_user_info(chat_user) ==
    IF chat_user = NoUser THEN UserInfo("Anonymous") ELSE UserInfo(chat_user)

websocket_chat(websocket, session_id, chat_user) ==
    connect(websocket, session_id, chat_user_info(chat_user))

(* manager = ConnectionManager() *)
WsInit ==
    /\ sockets = [w \in Sockets |-> IdleSocket]
    /\ active_connections = <<>>
    /\ connection_users = <<>>
    /\ typing_users = <<>>
    /\ streams = [k \in 1..MaxStreams |-> IdleStream]
    /\ sent = {}
    /\ ws_resp = [op |-> "none", websocket |-> NoSocket, session_id |-> "None",
                  connections_before |-> {}]

WsNext ==
    \/ \E w \in Sockets, s \in SessionIds, u \in UserInfos : connect(w, s, u)
    \/ \E w \in Sockets : disconnect(w)
    \/ \E w \in Sockets : client_drops(w)
    \/ \E w \in Sockets, is_typing \in BOOLEAN : handle_typing(w, is_typing)
    \/ \E w \in Sockets, k \in 1..MaxStreams, m \in MessageIds :
          handle_user_message(w, k, m)
    \/ \E k \in 1..MaxStreams, chunk \in Chunks : stream_chunk(k, chunk)
    \/ \E k \in 1..MaxStreams : stream_end(k)
    \/ \E k \in 1..MaxStreams : stream_raises(k)

(* the chat endpoint: connections made through websocket_chat *)
WsChatNext ==
    \/ \E w \in Sockets, s \in SessionIds, chat_user \in ChatUsers :
          websocket_chat(w, s, chat_user)
    \/ \E w \in Sockets : disconnect(w)
    \/ \E w \in Sockets : client_drops(w)
    \/ \E w \in Sockets, is_typing \in BOOLEAN : handle_typing(w, is_typing)

(* ================= SSE chat stream (routers/chat.py) =================== *)

MaxLines == 3

(* a line of the LLM endpoint's streaming answer: its prefix, and what the *)
(* text after "data: " is: the literal [DONE], text that is not JSON, or a *)
(* JSON chunk with its number of choices and the content key of the first  *)
(* choice's delta ("none" when the delta has no content key)               *)
Line(prefix, data, choices, content) ==
    [prefix |-> prefix, data |-> data, choices |-> choices, content |-> content]
UpstreamLines ==
    {Line("data: ", "json", 1, "a"), Line("data: ", "json", 1, "b"),
     Line("data: ", "json", 1, "none"), Line("data: ", "json", 0, "none"),
     Line("data: ", "not json", 0, "none"), Line(": ", "json", 1, "a"),
     Line("data: ", "[DONE]", 0, "none")}

(* LLMService.stream_chat on one line: the chunks it yields, and whether   *)
(* it leaves the loop                                                      *)
yields_every_chunk(line) ==
    IF line.prefix = "data: " /\ line.data = "json" THEN <<line.content>> ELSE <<>>
yields(line) ==
    IF line.prefix # "data: " THEN <<>>
    ELSE IF line.data = "[DONE]" THEN <<>>
    ELSE IF line.data # "json" THEN <<>>
    ELSE IF line.choices > 0 /\ line.content # "none" THEN <<line.content>>
    ELSE <<>>
breaks(line) == line.prefix = "data: " /\ line.data = "[DONE]"

(* the lines generate() writes *)
content_line(chunk) == [data |-> "json", key |-> "content", value |-> chunk]
error_line(e) == [data |-> "json", key |-> "error", value |-> e]
done_line == [data |-> "[DONE]", key |-> "none", value |-> "none"]

RECURSIVE content_lines(_)
content_lines(chunks) ==
    IF chunks = <<>> THEN <<>>
    ELSE <<content_line(Head(chunks))>> \o content_lines(Tail(chunks))

(* POST /chat/stream : the response starts, nothing is read yet *)
stream_chat ==
    /\ sse_pc # "streaming"
    /\ sse_pc' = "streaming"
    /\ upstream' = <<>>
    /\ sse_out' = <<>>

(* the LLM endpoint sends a line; generate() writes a content line for     *)
(* each chunk stream_chat yields, and [DONE] when stream_chat returns      *)
upstream_line(line) ==
    /\ sse_pc = "streaming"
    /\ Len(upstream) < MaxLines
    /\ upstream' = Append(upstream, line)
    /\ IF breaks(line)
       THEN /\ sse_out' = Append(sse_out, done_line)
            /\ sse_pc' = "done"
       ELSE /\ sse_out' = sse_out \o content_lines(yields(line))
            /\ sse_pc' = "streaming"

(* the answer of the LLM endpoint ends without a [DONE] line *)
upstream_ends ==
    /\ sse_pc = "streaming"
    /\ sse_out' = Append(sse_out, done_line)
    /\ sse_pc' = "done"
    /\ UNCHANGED upstream

(* raise_for_status or the connection raises: stream_chat re-raises and    *)
(* generate() writes the error line                                        *)
upstream_raises(e) ==
    /\ sse_pc = "streaming"
    /\ sse_out' = Append(sse_out, error_line(e))
    /\ sse_pc' = "failed"
    /\ UNCHANGED upstream

SseInit ==
    /\ sse_pc = "idle"
    /\ upstream = <<>>
    /\ sse_out = <<>>

SseNext ==
    \/ stream_chat
    \/ \E line \in UpstreamLines : upstream_line(line)
    \/ upstream_ends
    \/ \E e \in {"HTTPStatusError", "ReadError"} : upstream_raises(e)

(* ============= route dispatch of the decisions router ================== *)

MaxSegments == 3

(* a route: its method, its path as segments ("{}" is a path parameter)    *)
(* and its handler; the routes are listed in the order of registration     *)
Route(method, path, handler) == [method |-> method, path |-> path, handler |-> handler]
DecisionRoutes ==
    << Route("POST", <<>>, "create_decision"),
       Route("GET", <<>>, "list_decisions"),
       Route("GET", <<"pending">>, "get_pending_decisions"),
       Route("GET", <<"{}">>, "get_decision"),
       Route("PATCH", <<"{}">>, "update_decision"),
       Route("POST", <<"{}", "analyze-coa">>, "analyze_courses_of_action"),
       Route("POST", <<"{}", "assess-risk">>, "assess_decision_risk"),
       Route("POST", <<"{}", "approve">>, "approve_decision"),
       Route("POST", <<"{}", "outcome">>, "record_decision_outcome"),
       Route("POST", <<"{}", "mdmp", "{}">>, "support_mdmp_phase"),
       Route("GET", <<"historical", "analysis">>, "analyze_historical_decisions"),
       Route("GET", <<"stats">>, "get_decision_statistics"),
       Route("GET", <<"templates">>, "get_decision_templates") >>

Methods == {"GET", "POST", "PATCH", "DELETE"}
Segments == {"stats", "templates", "historical", "analysis", "mdmp",
             "11111111-1111-1111-1111-111111111111"}
Paths == UNION {[1..n -> Segments] : n \in 0..MaxSegments}

(* the text parses as a UUID *)
IsUUID(text) == text = "11111111-1111-1111-1111-111111111111"

(* the path regex of a route: a parameter takes any one segment *)
PathMatches(pattern, path) ==
    /\ Len(pattern) = Len(path)
    /\ \A i \in 1..Len(pattern) : pattern[i] = "{}" \/ pattern[i] = path[i]

(* Router dispatch: the first route that matches path and method handles   *)
(* the request; failing that a route that matches the path answers 405;    *)
(* failing that the answer is 404. Index 0 stands for no route.            *)
FullMatches(method, path) ==
    {i \in 1..Len(DecisionRoutes) :
        PathMatches(DecisionRoutes[i].path, path) /\ DecisionRoutes[i].method = method}
PartialMatches(path) ==
    {i \in 1..Len(DecisionRoutes) : PathMatches(DecisionRoutes[i].path, path)}
First(indexes) == CHOOSE i \in indexes : \A j \in indexes : i <= j

(* the decision_id parameter of the matched route is validated as a UUID   *)
(* before the handler runs                                                 *)
ParamsValid(route, path) ==
    (Len(route.path) > 0 /\ route.path[1] = "{}") => IsUUID(path[1])

dispatch(method, path) ==
    IF FullMatches(method, path) # {}
    THEN LET route == DecisionRoutes[First(FullMatches(method, path))]
         IN  [method |-> method, path |-> path, route |-> route.handler,
              code |-> IF ParamsValid(route, path) THEN 200 ELSE 422,
              handler |-> IF ParamsValid(route, path) THEN route.handler ELSE "none"]
    ELSE [method |-> method, path |-> path, route |-> "none",
          code |-> IF PartialMatches(path) # {} THEN 405 ELSE 404,
          handler |-> "none"]

(* a request to /decisions/... arrives *)
request(method, path) ==
    route_resp' = dispatch(method, path)

RouteInit ==
    route_resp = [method |-> "none", path |-> <<>>, route |-> "none", code |-> 0,
                  handler |-> "none"]

RouteNext ==
    \E method \in Methods, path \in Paths : request(method, path)

(* ============ concurrent logins (one database session each) ============ *)

MaxRequests == 2
MaxChecks == 6

(* the login requests in flight, each with the session get_db gave it *)
Requests == 1..MaxRequests

(* a request that holds no row *)
IdleRequest == [pc |-> "idle", password |-> "None", row |-> NewUser]

(* db.commit(): the UPDATE carries the attributes of the session's object  *)
(* whose value differs from the one that was loaded                        *)
commit(stored, loaded, assigned) ==
    [f \in DOMAIN stored |-> IF assigned[f] # loaded[f] THEN assigned[f] ELSE stored[f]]

(* authenticate_user up to "await db.execute(query)": the request's        *)
(* session loads its own copy of the row                                   *)
login_select(r, password) ==
    /\ login_reqs[r].pc = "idle"
    /\ login_reqs' = [login_reqs EXCEPT ![r] =
                         [pc |-> "loaded", password |-> password, row |-> user]]
    /\ UNCHANGED <<user, failed_checks>>

(* authenticate_user from the lock test to "await db.commit()", on the     *)
(* copy the session loaded                                                 *)
login_commit(r) ==
    /\ login_reqs[r].pc = "loaded"
    /\ LET u == login_reqs[r].row
           password == login_reqs[r].password
           o == AuthOutcome(u, password, now)
           checked == ~IsLocked(u, now)
           wrong == ~verify_password(password, u.hashed_password)
       IN  /\ (checked /\ wrong) => failed_checks < MaxChecks
           /\ user' = commit(user, u, o.row)
           /\ failed_checks' = IF ~checked THEN failed_checks
                                ELSE IF wrong THEN failed_checks + 1
                                ELSE IF o.ok THEN 0
                                ELSE failed_checks
    /\ login_reqs' = [login_reqs EXCEPT ![r] = IdleRequest]

LoginInit ==
    /\ login_reqs = [r \in Requests |-> IdleRequest]
    /\ failed_checks = 0

LoginNext ==
    \/ \E r \in Requests, password \in Passwords : login_select(r, password)
    \/ \E r \in Requests : login_commit(r)

(* ====== one broadcast interleaved with connect and disconnect ========== *)

MaxBcSockets == 3

BcSockets == 1..MaxBcSockets

(* the session the broadcast goes to *)
BcSession == "A"

(* the broadcast is not running *)
IdleIter == [pc |-> "idle", index |-> 0, exclude |-> NoSocket, detached |-> FALSE]

(* the list object the for loop of broadcast_to_session iterates over: the *)
(* session's list, or the emptied list of a session that disconnect has     *)
(* deleted since the loop began                                             *)
iterated_list ==
    IF bc_iter.detached \/ BcSession \notin DOMAIN bc_sessions THEN <<>>
    ELSE bc_sessions[BcSession]

(* the for loop from the element after position index up to its next       *)
(* "await connection.send_json(message)": the list iterator reads by        *)
(* position, and "continue" passes over the excluded socket                 *)
iterate(connections, index, exclude) ==
    LET rest == {j \in (index + 1)..Len(connections) : connections[j] # exclude}
    IN  IF rest = {}
        THEN [index |-> Len(connections), connection |-> NoSocket]
        ELSE LET j == CHOOSE k \in rest : \A m \in rest : k <= m
             IN  [index |-> j, connection |-> connections[j]]

(* connect, lines 44-50, of a socket without user_info (no user_joined) *)
bc_connect(websocket) ==
    /\ BcSession \in DOMAIN bc_sessions
          => websocket \notin ListElems(bc_sessions[BcSession])
    /\ bc_sessions' =
          IF BcSession \in DOMAIN bc_sessions
          THEN [bc_sessions EXCEPT ![BcSession] = Append(@, websocket)]
          ELSE dict_set(bc_sessions, BcSession, <<websocket>>)
    /\ bc_iter' = [bc_iter EXCEPT !.detached =
                      @ \/ (bc_iter.pc = "sending" /\ BcSession \notin DOMAIN bc_sessions)]
    /\ UNCHANGED <<bc_delivered, bc_steady>>

(* disconnect, lines 82-93, of a socket without user_info (no user_left) *)
bc_disconnect(websocket) ==
    /\ BcSession \in DOMAIN bc_sessions
    /\ websocket \in ListElems(bc_sessions[BcSession])
    /\ LET l == list_remove(bc_sessions[BcSession], websocket)
       IN  bc_sessions' = IF l = <<>> THEN dict_del(bc_sessions, BcSession)
                          ELSE [bc_sessions EXCEPT ![BcSession] = l]
    /\ bc_steady' = bc_steady \ {websocket}
    /\ UNCHANGED <<bc_iter, bc_delivered>>

(* the loop goes on to its next send, or ends *)
broadcast_advance(connections, index, exclude, delivered) ==
    LET it == iterate(connections, index, exclude)
    IN  /\ bc_iter' = [pc |-> IF it.connection = NoSocket THEN "done" ELSE "sending",
                       index |-> it.index, exclude |-> exclude, detached |-> FALSE]
        /\ bc_delivered' = [w \in BcSockets |->
                               IF w = it.connection THEN delivered[w] + 1
                               ELSE delivered[w]]

(* broadcast_to_session, lines 128-143: up to the first send *)
broadcast_begin(exclude) ==
    /\ bc_iter.pc \in {"idle", "done"}
    /\ LET connections == IF BcSession \in DOMAIN bc_sessions
                          THEN bc_sessions[BcSession] ELSE <<>>
       IN  /\ broadcast_advance(connections, 0, exclude, [w \in BcSockets |-> 0])
           /\ bc_steady' = ListElems(connections) \ {exclude}
    /\ UNCHANGED bc_sessions

(* broadcast_to_session, lines 138-157: a send returns and the loop goes on *)
broadcast_resume ==
    /\ bc_iter.pc = "sending"
    /\ broadcast_advance(iterated_list, bc_iter.index, bc_iter.exclude, bc_delivered)
    /\ UNCHANGED <<bc_sessions, bc_steady>>

BcInit ==
    /\ bc_sessions = <<>>
    /\ bc_iter = IdleIter
    /\ bc_delivered = [w \in BcSockets |-> 0]
    /\ bc_steady = {}

BcNext ==
    \/ \E w \in BcSockets : bc_connect(w)
    \/ \E w \in BcSockets : bc_disconnect(w)
    \/ \E exclude \in BcSockets \cup {NoSocket} : broadcast_begin(exclude)
    \/ broadcast_resume

(* ===================== application lifespan (main.py) ================== *)

(* lifespan up to its yield: init_db and RedisService.connect; either one  *)
(* raises when its server is unreachable, and the application then does    *)
(* not start. A new process has no get_redis instance yet.                 *)
startup ==
    /\ lifespan_pc \in {"stopped", "failed"}
    /\ lifespan_pc' = IF db_up /\ ~RedisService_connect(redis_up).raised
                      THEN "running" ELSE "failed"
    /\ shutdown_log' = <<>>
    /\ redis_service_instance' = "None"
    /\ health_resp' = HealthReply("startup", 0, "none", NoServices)
    /\ UNCHANGED <<db_up, redis_up, llm_endpoint>>

(* lifespan after its yield, resumed by the shutdown event: close_db, then *)
(* redis_service.disconnect; an exception of the first ends the function   *)
shutdown(dispose_raises) ==
    /\ lifespan_pc = "running"
    /\ lifespan_pc' = "stopped"
    /\ shutdown_log' = IF dispose_raises THEN <<"close_db">>
                       ELSE <<"close_db", "redis_disconnect">>
    /\ UNCHANGED health_vars

(* an exception raised into lifespan at its yield: the function has no     *)
(* try/finally around the yield, so nothing after it runs                  *)
shutdown_on_error ==
    /\ lifespan_pc = "running"
    /\ lifespan_pc' = "stopped"
    /\ shutdown_log' = <<>>
    /\ UNCHANGED health_vars

(* the application serves requests between startup and shutdown *)
serve ==
    /\ lifespan_pc = "running"
    /\ HealthNext
    /\ UNCHANGED life_vars

(* the servers also come and go while the application is down *)
outage ==
    /\ lifespan_pc # "running"
    /\ database_changes \/ redis_changes
    /\ UNCHANGED life_vars

(* the application has started *)
LifeInit ==
    /\ lifespan_pc = "running"
    /\ shutdown_log = <<>>

LifeNext ==
    \/ startup
    \/ \E dispose_raises \in BOOLEAN : shutdown(dispose_raises)
    \/ shutdown_on_error
    \/ serve
    \/ outage

(* ======================= specifications ================================ *)

AuthInit ==
    /\ now = 0
    /\ user = NewUser
    /\ streak = 0
    /\ auth_resp = [op |-> "idle", username |-> "alice",
                    password_ok |-> FALSE, was_locked |-> FALSE,
                    lock_expired |-> FALSE, ok |-> FALSE]

AuthNext ==
    \/ \E username \in Usernames, password \in Passwords :
          authenticate_user(username, password)
    \/ \E active \in BOOLEAN : set_active(active)
    \/ unlock_account
    \/ Tick

Init == AuthInit /\ TokInit /\ DecInit /\ ConvInit /\ HealthInit /\ WsInit /\ LifeInit /\ SseInit /\ RouteInit /\ LoginInit /\ BcInit

SpecAuth == Init /\ [][AuthNext /\ UNCHANGED <<tok_vars, dec_vars, conv_vars, health_vars, ws_vars, life_vars, sse_vars, route_vars, login_vars, bc_vars>>]_vars

SpecDecision ==
    Init /\ [][DecNext /\ UNCHANGED <<auth_vars, tok_vars, conv_vars, health_vars, ws_vars, life_vars, sse_vars, route_vars, login_vars, bc_vars>>]_vars

SpecConversation ==
    Init /\ [][ConvNext /\ UNCHANGED <<auth_vars, tok_vars, dec_vars, health_vars, ws_vars, life_vars, sse_vars, route_vars, login_vars, bc_vars>>]_vars

SpecPending ==
    Init /\ [][PendNext /\ UNCHANGED <<auth_vars, tok_vars, conv_vars, health_vars, ws_vars, life_vars, sse_vars, route_vars, login_vars, bc_vars>>]_vars

SpecMdmp ==
    Init /\ [][MdmpNext /\ UNCHANGED <<auth_vars, tok_vars, conv_vars, health_vars, ws_vars, life_vars, sse_vars, route_vars, login_vars, bc_vars>>]_vars

SpecToken ==
    Init /\ [][TokNext /\ UNCHANGED <<user, auth_resp, streak, dec_vars, conv_vars, health_vars, ws_vars, life_vars, sse_vars, route_vars, login_vars, bc_vars>>]_vars

SpecHealth ==
    Init /\ [][HealthNext /\ UNCHANGED <<auth_vars, tok_vars, dec_vars, conv_vars, ws_vars, life_vars, sse_vars, route_vars, login_vars, bc_vars>>]_vars

SpecWs ==
    Init /\ [][WsNext /\ UNCHANGED <<auth_vars, tok_vars, dec_vars, conv_vars,
                                     health_vars, life_vars, sse_vars, route_vars, login_vars, bc_vars>>]_vars

SpecLifespan ==
    Init /\ [][LifeNext /\ UNCHANGED <<auth_vars, tok_vars, dec_vars, conv_vars, ws_vars, sse_vars, route_vars, login_vars, bc_vars>>]_vars

SpecWsChat ==
    Init /\ [][WsChatNext /\ UNCHANGED <<auth_vars, tok_vars, dec_vars, conv_vars,
                                         health_vars, life_vars, sse_vars, route_vars, login_vars, bc_vars>>]_vars

SpecSse ==
    Init /\ [][SseNext /\ UNCHANGED <<auth_vars, tok_vars, dec_vars, conv_vars,
                                      health_vars, ws_vars, life_vars, route_vars, login_vars, bc_vars>>]_vars

SpecRoute ==
    Init /\ [][RouteNext /\ UNCHANGED <<auth_vars, tok_vars, dec_vars, conv_vars,
                                        health_vars, ws_vars, life_vars, sse_vars, login_vars, bc_vars>>]_vars

SpecLogin ==
    Init /\ [][LoginNext /\ UNCHANGED <<now, auth_resp, streak, tok_vars, dec_vars, conv_vars, health_vars, ws_vars, life_vars, sse_vars, route_vars, bc_vars>>]_vars

SpecBroadcast ==
    Init /\ [][BcNext /\ UNCHANGED <<auth_vars, tok_vars, dec_vars, conv_vars, health_vars, ws_vars, life_vars, sse_vars, route_vars, login_vars>>]_vars

(* ========================= claims ====================================== *)

(* C1: after 5 consecutive wrong-password calls that started from a        *)
(* failure counter of 0 the account's locked_until lies in the future, and *)
(* a call made while locked_until is in the future returns no user, also   *)
(* for the correct password.                                               *)
C1_Lockout ==
    /\ (auth_resp.op = "authenticate" /\ auth_resp.username = user.username
          /\ streak = MAX_LOGIN_ATTEMPTS)
       => (user.locked_until # None /\ user.locked_until > now)
    /\ (auth_resp.op = "authenticate" /\ auth_resp.was_locked) => ~auth_resp.ok

(* the 6th attempt, with the correct password, is refused during the lock  *)
(* that the 5th failure set                                                *)
C1_Witness ==
    /\ auth_resp.op = "authenticate"
    /\ auth_resp.password_ok /\ auth_resp.was_locked /\ ~auth_resp.ok
    /\ user.is_active
    /\ user.failed_login_attempts = MAX_LOGIN_ATTEMPTS
    /\ user.locked_until > now

(* C2: an authenticate_user call with the correct password on an active    *)
(* account whose lock window has passed succeeds, sets the counter to 0,   *)
(* clears locked_until and stamps last_login.                              *)
C2_LoginAfterLock ==
    (auth_resp.op = "authenticate" /\ auth_resp.lock_expired
       /\ auth_resp.password_ok /\ user.is_active)
    => /\ auth_resp.ok
       /\ user.failed_login_attempts = 0
       /\ user.locked_until = None
       /\ user.last_login = now

C2_Witness ==
    /\ auth_resp.op = "authenticate" /\ auth_resp.lock_expired
    /\ auth_resp.password_ok /\ user.is_active /\ auth_resp.ok
    /\ now >= LOCKOUT_DURATION_MINUTES

(* C3: every decision is created with status draft and, whatever API       *)
(* operation is applied to it, its status changes only along               *)
(* draft->pending, pending->approved, pending->rejected, approved->executed *)
C3_LifecycleEdgesOnly ==
    [][LET LifecycleEdges ==
              {<<"draft", "pending">>, <<"pending", "approved">>,
               <<"pending", "rejected">>, <<"approved", "executed">>}
       IN  \A id \in DOMAIN decisions' :
              IF id \in DOMAIN decisions
              THEN \/ decisions'[id].status = decisions[id].status
                   \/ <<decisions[id].status, decisions'[id].status>> \in LifecycleEdges
              ELSE decisions'[id].status = "draft"]_vars

(* C4: the approve endpoint admits exactly the callers whose role is       *)
(* commander or admin; any other caller gets 403 and the decisions are     *)
(* left as they were                                                       *)
C4_CommanderOrAdminApproves ==
    [][dec_resp'.op = "approve" =>
          IF Role[dec_resp'.caller] \in {"commander", "admin"}
          THEN dec_resp'.code # 403
          ELSE dec_resp'.code = 403 /\ decisions' = decisions]_vars

(* C5: a conversation-scoped request by a user who does not own the        *)
(* existing conversation is answered 403, carries none of the conversation *)
(* or its messages, and changes neither; a request for a conversation id   *)
(* that does not exist is answered 404                                     *)
C5_OwnerOnlyConversations ==
    [][conv_resp'.op \in {"get", "patch", "delete", "add-message", "get-messages",
                          "search-messages", "summarize", "export"} =>
          LET c == conv_resp'.conversation_id
              u == conv_resp'.caller
          IN  /\ (ConvExists(c) /\ conversations[c].user_id # u) =>
                    /\ conv_resp'.code = 403
                    /\ conv_resp'.conversation = <<>>
                    /\ conv_resp'.messages = <<>>
                    /\ conversations' = conversations
                    /\ messages' = messages
                    /\ conv_tasks' = conv_tasks
              /\ ~ConvExists(c) => conv_resp'.code = 404]_vars

(* a non-owner's DELETE was refused and the conversation still holds its   *)
(* messages                                                                *)
C5_Witness ==
    /\ conv_resp.op = "delete" /\ conv_resp.code = 403
    /\ ConvExists(conv_resp.conversation_id)
    /\ conversations[conv_resp.conversation_id].user_id # conv_resp.caller
    /\ MessagesOf(conv_resp.conversation_id) # <<>>

C7_ApprovedIsStamped ==
    /\ \A id \in DOMAIN decisions :
          decisions[id].status = "approved" =>
             /\ decisions[id].approved_by # Null
             /\ decisions[id].approved_at # None
    /\ (dec_resp.op = "approve" /\ dec_resp.code = 200 /\ dec_resp.arg = "approved")
       => decisions[dec_resp.decision_id].approved_by = dec_resp.caller

(* a decision approved by a commander other than its owner *)
C7_Witness ==
    /\ dec_resp.op = "approve" /\ dec_resp.code = 200 /\ dec_resp.arg = "approved"
    /\ decisions[dec_resp.decision_id].status = "approved"
    /\ decisions[dec_resp.decision_id].approved_by = dec_resp.caller
    /\ decisions[dec_resp.decision_id].user_id # dec_resp.caller

(* C8: a decision whose status is rejected has a rejection_reason *)
C8_RejectedHasReason ==
    \A id \in DOMAIN decisions :
       decisions[id].status = "rejected" => decisions[id].rejection_reason # Null

(* C9: after a successful record-outcome call the decision holds the       *)
(* supplied outcome, has status executed and a non-null executed_at,       *)
(* whatever its status was before                                          *)
C9_OutcomeExecutes ==
    (dec_resp.op = "outcome" /\ dec_resp.code = 200)
    => /\ decisions[dec_resp.decision_id].outcome = dec_resp.arg
       /\ decisions[dec_resp.decision_id].status = "executed"
       /\ decisions[dec_resp.decision_id].executed_at # None

(* the outcome of a decision that was never approved was recorded by a     *)
(* commander who does not own it                                           *)
C9_Witness ==
    /\ dec_resp.op = "outcome" /\ dec_resp.code = 200
    /\ decisions[dec_resp.decision_id].approved_at = None
    /\ decisions[dec_resp.decision_id].user_id # dec_resp.caller
    /\ decisions[dec_resp.decision_id].status = "executed"

(* C10: the approve and outcome endpoints, the callers of update_status,   *)
(* leave coa_analysis, selected_coa, alternatives and risk_assessment of   *)
(* every decision as they were                                             *)
C10_TransitionsKeepCoaAndRisk ==
    [][dec_resp'.op \in {"approve", "outcome"} =>
          \A id \in DOMAIN decisions :
             /\ id \in DOMAIN decisions'
             /\ decisions'[id].coa_analysis = decisions[id].coa_analysis
             /\ decisions'[id].selected_coa = decisions[id].selected_coa
             /\ decisions'[id].alternatives = decisions[id].alternatives
             /\ decisions'[id].risk_assessment = decisions[id].risk_assessment]_vars

(* a decision carrying COA analysis and a risk matrix was approved and     *)
(* still carries them                                                      *)
C10_Witness ==
    /\ dec_resp.op = "approve" /\ dec_resp.code = 200
    /\ decisions[dec_resp.decision_id].status \in {"approved", "rejected"}
    /\ decisions[dec_resp.decision_id].coa_analysis # <<>>
    /\ decisions[dec_resp.decision_id].selected_coa # Null
    /\ decisions[dec_resp.decision_id].risk_assessment # "{}"

(* C11: the pending-decisions query returns only rows of the table whose   *)
(* status is pending, at most limit of them, flash before immediate before *)
(* priority before routine and, within one priority, the more recently     *)
(* created first, whatever the order of creation                           *)
C11_PendingOrder ==
    dec_resp.op = "pending" =>
       LET body == dec_resp.body
           rank(d) == CASE d.priority = "flash" -> 0
                        [] d.priority = "immediate" -> 1
                        [] d.priority = "priority" -> 2
                        [] d.priority = "routine" -> 3
       IN  /\ Len(body) <= dec_resp.arg
           /\ \A i \in DOMAIN body :
                 /\ body[i].status = "pending"
                 /\ \E k \in DOMAIN decisions : decisions[k] = body[i]
           /\ \A i, j \in DOMAIN body :
                 i < j => \/ rank(body[i]) < rank(body[j])
                          \/ /\ rank(body[i]) = rank(body[j])
                             /\ body[i].created_at > body[j].created_at

(* three pending rows created in the order immediate, routine, priority:   *)
(* the list is cut at the limit and the older immediate row comes before   *)
(* the newer priority row                                                  *)
C11_Witness ==
    /\ dec_resp.op = "pending" /\ dec_resp.arg = 2 /\ Len(dec_resp.body) = 2
    /\ Len(decisions) = 3
    /\ \A k \in DOMAIN decisions : decisions[k].status = "pending"
    /\ dec_resp.body[1].created_at < dec_resp.body[2].created_at
    /\ dec_resp.body[1].priority = "immediate"
    /\ dec_resp.body[2].priority = "priority"
    /\ decisions[2].priority = "routine"

(* C12: the pending-list endpoint lists the pending decisions of every     *)
(* user to a caller whose role is commander and only the caller's own      *)
(* pending decisions to a caller of any other role, in both cases as many  *)
(* of them as the limit allows                                             *)
C12_PendingScope ==
    dec_resp.op = "pending" =>
       LET body == dec_resp.body
           caller == dec_resp.caller
           visible == {k \in DOMAIN decisions :
                          /\ decisions[k].status = "pending"
                          /\ (Role[caller] = "commander"
                                \/ decisions[k].user_id = caller)}
       IN  /\ \A i \in DOMAIN body : \E k \in visible : decisions[k] = body[i]
           /\ Len(body) = IF Cardinality(visible) < dec_resp.arg
                          THEN Cardinality(visible) ELSE dec_resp.arg

(* a staff caller is shown the one own pending decision and neither of the *)
(* two pending decisions of the other user                                 *)
C12_Witness ==
    /\ dec_resp.op = "pending" /\ Role[dec_resp.caller] = "staff"
    /\ dec_resp.arg = 2 /\ Len(dec_resp.body) = 1
    /\ dec_resp.body[1].user_id = dec_resp.caller
    /\ Cardinality({k \in DOMAIN decisions :
                       /\ decisions[k].status = "pending"
                       /\ decisions[k].user_id # dec_resp.caller}) = 2

(* C13: verify_token returns a user only for a token the service issued    *)
(* (validly signed), not yet expired, whose type is access, and            *)
(* refresh_access_token issues a pair only for such a token whose type is  *)
(* refresh; neither accepts a token of the other type                      *)
C13_TokenTypeSeparation ==
    /\ (tok_resp.op = "verify" /\ tok_resp.ok) =>
          /\ tok_resp.token \in tokens
          /\ tok_resp.token.payload.exp > now
          /\ tok_resp.token.payload.type = "access"
    /\ (tok_resp.op = "refresh" /\ tok_resp.ok) =>
          /\ tok_resp.token \in tokens
          /\ tok_resp.token.payload.exp > now
          /\ tok_resp.token.payload.type = "refresh"
          /\ create_token_pair(tok_resp.token.payload.sub, now) \subseteq tokens

(* an issued, unexpired refresh token of an active user was presented as   *)
(* an access token and refused                                             *)
C13_Witness ==
    /\ tok_resp.op = "verify" /\ ~tok_resp.ok
    /\ tok_resp.token \in tokens
    /\ tok_resp.token.payload.type = "refresh"
    /\ tok_resp.token.payload.exp > now
    /\ user_usable(tok_resp.token.payload.sub)

(* C14: verify_token and refresh_access_token accept a token only while    *)
(* its user exists and is active at the time of use, so a token issued     *)
(* before the user was deactivated or deleted is rejected although         *)
(* unexpired                                                               *)
C14_TokensNeedActiveUser ==
    (tok_resp.op \in {"verify", "refresh"} /\ tok_resp.ok) =>
       /\ tok_resp.token.payload.sub \in DOMAIN accounts
       /\ accounts[tok_resp.token.payload.sub] = "active"

(* an issued, unexpired access token was refused after its user had been   *)
(* deactivated                                                             *)
C14_Witness ==
    /\ tok_resp.op = "verify" /\ ~tok_resp.ok
    /\ tok_resp.token \in tokens
    /\ tok_resp.token.payload.type = "access"
    /\ tok_resp.token.payload.exp > now
    /\ tok_resp.token.payload.sub \in DOMAIN accounts
    /\ accounts[tok_resp.token.payload.sub] = "inactive"


(* C15: creating a conversation with a metadata object succeeds, and the   *)
(* conversation then stored is returned with metadata equal to the object  *)
(* the request carried.                                                    *)
C15_MetadataRoundTrip ==
    conv_resp.op = "create" =>
        /\ conv_resp.code = 200
        /\ ConvExists(conv_resp.conversation_id)
        /\ ConversationResponse_from_orm(conversations[conv_resp.conversation_id]).metadata
             = conv_resp.arg

(* C16: a detailed health request is answered 200; when the cache is       *)
(* unreachable the answer reports services.redis "unhealthy" and status    *)
(* "degraded"; and the status is "healthy" exactly when the database, the  *)
(* cache and the LLM endpoint are all up.                                  *)
C16_DetailedHealth ==
    health_resp.op = "detailed" =>
        /\ health_resp.code = 200
        /\ ~health_resp.env.redis =>
              /\ health_resp.services.redis = "unhealthy"
              /\ health_resp.status = "degraded"
        /\ health_resp.status = "healthy" <=>
              /\ health_resp.env.db
              /\ health_resp.env.redis
              /\ health_resp.env.llm \in {"health_ok", "options_only"}

(* C17: a message broadcast to a session is sent only to sockets that are  *)
(* registered under that session, and so never to a socket registered only *)
(* under another session.                                                  *)
C17_SessionIsolation ==
    \A m \in sent :
        m.kind = "broadcast" =>
            /\ m.session_id \in DOMAIN active_connections
            /\ m.to \in ListElems(active_connections[m.session_id])

(* a broadcast to session A reaches a socket of A while a connected socket *)
(* is registered under session B and is not sent the message               *)
C17_Witness ==
    /\ \E m \in sent : m.kind = "broadcast" /\ m.session_id = "A"
    /\ "A" \in DOMAIN active_connections /\ "B" \in DOMAIN active_connections
    /\ \E w \in ListElems(active_connections["B"]) :
          /\ w \notin ListElems(active_connections["A"])
          /\ sockets[w].client_state = "CONNECTED"
          /\ \A m \in sent : m.to # w

(* C18: after the disconnect of the only socket registered in a session,   *)
(* the session is absent from get_active_sessions, it has no typing set    *)
(* and the socket has no entry in connection_users.                        *)
C18_LastDisconnectCleansUp ==
    (ws_resp.op = "disconnect" /\ ws_resp.connections_before = {ws_resp.websocket})
        => /\ ws_resp.session_id \notin get_active_sessions
           /\ ws_resp.session_id \notin DOMAIN typing_users
           /\ ws_resp.websocket \notin DOMAIN connection_users

(* the last socket of session A has disconnected while session B is still  *)
(* active                                                                  *)
C18_Witness ==
    /\ ws_resp.op = "disconnect"
    /\ ws_resp.session_id = "A"
    /\ ws_resp.connections_before = {ws_resp.websocket}
    /\ "A" \notin get_active_sessions
    /\ "B" \in get_active_sessions

(* C19: a relay broadcasts one llm_stream event per chunk, in the order of *)
(* the chunks and tagged with the message id, and then exactly one         *)
(* terminal event: llm_complete with the concatenation of all chunks when  *)
(* the sequence ends, or error with the message id when it fails; nothing  *)
(* follows the terminal event and a failed relay sends no llm_complete.    *)
C19_StreamingRelay ==
    \A k \in DOMAIN streams :
        LET st == streams[k]
            n == Len(st.chunks)
            cat[i \in 0..n] == IF i = 0 THEN <<>> ELSE cat[i - 1] \o st.chunks[i]
        IN  st.status # "idle" =>
              /\ Len(st.events) = IF st.status = "running" THEN n ELSE n + 1
              /\ \A i \in 1..n :
                    st.events[i] = [type |-> "llm_stream", message_id |-> st.message_id,
                                    content |-> st.chunks[i]]
              /\ st.status = "complete" =>
                    st.events[n + 1] = [type |-> "llm_complete",
                                        message_id |-> st.message_id,
                                        content |-> cat[n]]
              /\ st.status = "failed" =>
                    /\ st.events[n + 1].type = "error"
                    /\ st.events[n + 1].message_id = st.message_id

(* a relay of two different chunks has completed *)
C19_Witness ==
    \E k \in DOMAIN streams :
        /\ streams[k].status = "complete"
        /\ Len(streams[k].chunks) = 2
        /\ streams[k].chunks[1] # streams[k].chunks[2]
        /\ Len(streams[k].events) = 3

(* C20: a successful support_mdmp call stores its result in mdmp_data      *)
(* under the phase name, keeps the entries of all other phases and sets    *)
(* mdmp_phase to the phase of the call; a call with a phase outside the    *)
(* seven recognized names is answered with an input error and changes      *)
(* nothing on the decision.                                                *)
C20_MdmpAccumulates ==
    [][(dec_resp'.op = "mdmp" /\ dec_resp'.code \in {200, 400}) =>
          LET id == dec_resp'.decision_id
              phase == dec_resp'.arg
          IN  IF dec_resp'.code = 400
              THEN /\ phase \notin MDMP_PHASES
                   /\ decisions' = decisions
              ELSE /\ phase \in MDMP_PHASES
                   /\ decisions'[id].mdmp_phase = phase
                   /\ phase \in DOMAIN decisions'[id].mdmp_data
                   /\ decisions'[id].mdmp_data[phase] = dec_resp'.body[1]
                   /\ \A p \in DOMAIN decisions[id].mdmp_data \ {phase} :
                         /\ p \in DOMAIN decisions'[id].mdmp_data
                         /\ decisions'[id].mdmp_data[p] = decisions[id].mdmp_data[p]
      ]_vars

(* C21: once every scheduled recompute task has finished, a conversation's *)
(* message_count equals the number of its stored messages and its          *)
(* last_message_at is the greatest created_at among them.                  *)
C21_CountsSettle ==
    (conv_tasks = <<>> /\ conv_resp.op = "recount") =>
        \A c \in DOMAIN conversations :
            MessagesOf(c) # <<>> =>
                /\ conversations[c].message_count = Len(MessagesOf(c))
                /\ conversations[c].last_message_at = LastCreatedAt(c)

(* C22: every shutdown disposes the database engine and then closes the    *)
(* cache connection, in that order, also when the first step fails and     *)
(* when the shutdown follows an error.                                     *)
C22_ShutdownOrder ==
    lifespan_pc = "stopped" => shutdown_log = <<"close_db", "redis_disconnect">>

(* C23: a client that connects to the chat endpoint without authentication *)
(* is registered as Anonymous and is sent its confirmation, and no         *)
(* user_joined notice is broadcast; for an authenticated client the        *)
(* user_joined notice goes to every other connected socket of the session, *)
(* never to the connecting socket, and after the confirmation.             *)
C23_JoinNotice ==
    ws_resp.op = "connect" =>
        LET w == ws_resp.websocket
            session_id == ws_resp.session_id
            joined == {m \in sent : m.type = "user_joined"}
            others == {c \in ws_resp.connections_before :
                          sockets[c].client_state = "CONNECTED"}
        IN  /\ \E m \in sent : m.to = w /\ m.type = "connection" /\ m.step = 1
            /\ \A m \in joined : m.to # w /\ m.step = 2 /\ m.session_id = session_id
            /\ IF sockets[w].user_info = UserInfo("Anonymous")
               THEN joined = {}
               ELSE {m.to : m \in joined} = others

(* C24: the SSE stream carries one content line per token delta, in the    *)
(* order of the deltas, and ends with exactly one terminal line: [DONE]    *)
(* after a normal end, or one error line after a failure; no content line  *)
(* follows the terminal line and no [DONE] follows an error line.          *)
C24_SseStream ==
    LET deltas == SelectSeq(upstream, LAMBDA l : l.prefix = "data: " /\ l.data = "json"
                                                  /\ l.choices > 0 /\ l.content # "none")
        n == Len(deltas)
    IN  sse_pc # "idle" =>
          /\ Len(sse_out) = IF sse_pc = "streaming" THEN n ELSE n + 1
          /\ \A i \in 1..n :
                sse_out[i] = [data |-> "json", key |-> "content", value |-> deltas[i].content]
          /\ sse_pc = "done" => sse_out[n + 1].data = "[DONE]"
          /\ sse_pc = "failed" => (sse_out[n + 1].data = "json" /\ sse_out[n + 1].key = "error")

(* a stream of two different deltas, ended by the [DONE] line of the LLM   *)
(* endpoint, has ended with [DONE]                                         *)
C24_Witness ==
    /\ sse_pc = "done"
    /\ Len(upstream) = 3
    /\ Len(sse_out) = 3
    /\ sse_out[1].value # sse_out[2].value

(* C25: GET /stats is handled by get_decision_statistics and GET           *)
(* /templates by get_decision_templates; neither is taken by the route     *)
(* GET /{decision_id}.                                                     *)
C25_StatsAndTemplatesRouted ==
    /\ (route_resp.method = "GET" /\ route_resp.path = <<"stats">>)
          => (route_resp.handler = "get_decision_statistics"
                /\ route_resp.route # "get_decision")
    /\ (route_resp.method = "GET" /\ route_resp.path = <<"templates">>)
          => (route_resp.handler = "get_decision_templates"
                /\ route_resp.route # "get_decision")

(* C26: an authenticate_user call made while locked_until is in the future *)
(* returns no user and leaves failed_login_attempts, locked_until and      *)
(* last_login as they were, for the right password and for a wrong one;    *)
(* the lock is not extended.                                               *)
C26_LockedAttemptIsInert ==
    [][(auth_resp'.op = "authenticate" /\ auth_resp'.username = user.username
          /\ user.locked_until # None /\ user.locked_until > now)
       => /\ ~auth_resp'.ok
          /\ user'.failed_login_attempts = user.failed_login_attempts
          /\ user'.locked_until = user.locked_until
          /\ user'.last_login = user.last_login]_vars

(* a wrong password tried some time into the lock: the lock still ends     *)
(* where the fifth failure put it                                          *)
C26_Witness ==
    /\ auth_resp.op = "authenticate" /\ auth_resp.username = user.username
    /\ auth_resp.was_locked /\ ~auth_resp.password_ok
    /\ user.failed_login_attempts = MAX_LOGIN_ATTEMPTS
    /\ user.locked_until > now
    /\ user.locked_until < now + LOCKOUT_DURATION_MINUTES

(* C28: failed_login_attempts goes back to 0 only in a successful          *)
(* authenticate_user call or in unlock_account, never because time passes; *)
(* when a wrong password is tried after the lock window has passed the     *)
(* counter is still at or above the maximum and that one failure sets      *)
(* locked_until a full lockout period ahead.                               *)
C28_ExpiryKeepsCounter ==
    [][/\ (user.failed_login_attempts # 0 /\ user'.failed_login_attempts = 0)
          => \/ auth_resp'.op = "authenticate" /\ auth_resp'.ok
             \/ auth_resp'.op = "unlock"
       /\ (auth_resp'.op = "authenticate" /\ auth_resp'.username = user.username
             /\ user.locked_until # None /\ user.locked_until <= now
             /\ ~auth_resp'.password_ok)
          => /\ user.failed_login_attempts >= MAX_LOGIN_ATTEMPTS
             /\ user'.failed_login_attempts = user.failed_login_attempts + 1
             /\ user'.locked_until = now' + LOCKOUT_DURATION_MINUTES]_vars

(* the sixth failure, made after the first lock ran out, locks again       *)
C28_Witness ==
    /\ auth_resp.op = "authenticate" /\ auth_resp.lock_expired
    /\ ~auth_resp.password_ok
    /\ user.failed_login_attempts = MAX_LOGIN_ATTEMPTS + 1
    /\ user.locked_until = now + LOCKOUT_DURATION_MINUTES

(* C29: every session id that get_active_sessions lists has at least one   *)
(* socket in its connection list, also after a broadcast has removed the   *)
(* session's dead sockets.                                                 *)
C29_ListedSessionsHaveSockets ==
    \A session_id \in get_active_sessions :
        Len(active_connections[session_id]) > 0

(* C27: however login requests with their own database sessions            *)
(* interleave, each failed password check leaves failed_login_attempts one *)
(* higher than it was in the database, and the check that is the fifth     *)
(* since the last successful login leaves the account locked.              *)
C27_NoLostFailure ==
    [][failed_checks' = failed_checks + 1
       => /\ user'.failed_login_attempts = user.failed_login_attempts + 1
          /\ failed_checks' >= MAX_LOGIN_ATTEMPTS => user'.locked_until # None]_vars

(* C30: when a broadcast that ran interleaved with connect and disconnect  *)
(* calls of other sockets has ended, every socket that was in the          *)
(* session's list from its beginning to its end, other than the excluded   *)
(* socket, has been sent the message exactly once.                         *)
C30_BroadcastReachesAll ==
    bc_iter.pc = "done" => \A w \in bc_steady : bc_delivered[w] = 1

====
